---------------------------- MODULE Spec2Model ----------------------------
(***************************************************************************)
(* A model of the Diannex bytecode interpreter (classes/Interpreter.ts,    *)
(* classes/LocalVariableStore.ts) driven by its host-facing API:           *)
(* runScene, update, resume and chooseChoice.                              *)
(*                                                                         *)
(* Values are tagged records.  A JavaScript number is modelled by an       *)
(* integer ("num") of magnitude at most MaxMagnitude, or NaN ("nan").  A   *)
(* call that computes any other number, that runs a nested loop for more   *)
(* than MaxRun steps or that nests calls deeper than MaxCallDepth is cut:  *)
(* the model has no step for it.  Arrays are modelled by value (the        *)
(* sharing of one array between two references is not modelled).           *)
(***************************************************************************)
EXTENDS Integers, Sequences, FiniteSets, TLC

(***************************************************************************)
(* Bounds of the model.                                                    *)
(***************************************************************************)
\* update() calls one nested `while (!paused) update()` loop may make
MaxRun == 12
\* frames the call stack may hold (Call is not taken beyond it)
MaxCallDepth == 2
\* Math.random() is drawn from {0/RandomScale .. (RandomScale-1)/RandomScale}
RandomScale == 2
\* texts the history variable `shown` records
MaxShown == 3
\* the largest magnitude of a number
MaxMagnitude == 1000

(***************************************************************************)
(* Value (types.ts)                                                        *)
(***************************************************************************)
Undefined == [t |-> "undef"]
Null == [t |-> "null"]
NaN == [t |-> "nan"]
\* the result of a computation the model does not represent
Cut == [t |-> "cut"]
Num(i) == [t |-> "num", v |-> i]
Str(s) == [t |-> "str", v |-> s]
Arr(a) == [t |-> "arr", v |-> a]

\* typeof v === "number"
IsNumber(v) == v.t \in {"num", "nan"}
\* typeof v === "string"
IsString(v) == v.t = "str"

\* the condition of `if (v)` / `v ? a : b`
Truthy(v) ==
    CASE v.t = "undef" -> FALSE
      [] v.t = "null" -> FALSE
      [] v.t = "nan" -> FALSE
      [] v.t = "num" -> v.v # 0
      [] v.t = "str" -> v.v # ""
      [] OTHER -> TRUE

Digit(d) == CASE d = 0 -> "0" [] d = 1 -> "1" [] d = 2 -> "2" [] d = 3 -> "3"
              [] d = 4 -> "4" [] d = 5 -> "5" [] d = 6 -> "6" [] d = 7 -> "7"
              [] d = 8 -> "8" [] OTHER -> "9"

RECURSIVE NatToString(_)
NatToString(n) == IF n < 10 THEN Digit(n) ELSE NatToString(n \div 10) \o Digit(n % 10)

RECURSIVE Join(_)
\* Value.toString(); only called on a value that is not undefined
ToStringValue(v) ==
    CASE v.t = "str" -> v.v
      [] v.t = "num" -> IF v.v < 0 THEN "-" \o NatToString(-v.v) ELSE NatToString(v.v)
      [] v.t = "nan" -> "NaN"
      [] v.t = "arr" -> Join(v.v)
      [] OTHER -> ""
Join(a) ==
    IF a = <<>> THEN ""
    ELSE LET h == IF Head(a).t \in {"undef", "null"} THEN "" ELSE ToStringValue(Head(a))
         IN IF Len(a) = 1 THEN h ELSE h \o "," \o Join(Tail(a))

\* a value in a string concatenation: start + value + end
Concatenated(v) ==
    CASE v.t = "undef" -> "undefined"
      [] v.t = "null" -> "null"
      [] OTHER -> ToStringValue(v)

DigitChars == {"0", "1", "2", "3", "4", "5", "6", "7", "8", "9"}

DigitValue(c) == CHOOSE d \in 0..9 : Digit(d) = c

RECURSIVE ParseDigits(_, _)
ParseDigits(text, n) ==
    IF text = "" \/ Head(text) \notin DigitChars THEN n
    ELSE ParseDigits(Tail(text), 10 * n + DigitValue(Head(text)))

\* parseInt(text) of a text without white space or sign: the number its
\* leading digits spell, NaN (here -1, which indexes no value) without one
ParseInt(text) ==
    IF text = "" \/ Head(text) \notin DigitChars THEN -1 ELSE ParseDigits(text, 0)

RECURSIVE Scan(_, _, _, _, _)
\* the for loop of interpolate, from index i on; the indexes of str are
\* zero-based in the code, and values[0] is the value popped first
Scan(str, values, i, insertStart, isEscaping) ==
    IF i >= Len(str) THEN str
    ELSE LET c == SubSeq(str, i + 1, i + 1)
         IN CASE c = "\\" -> Scan(str, values, i + 1, insertStart, ~isEscaping)
              [] c = "$" -> Scan(str, values, i + 1,
                                 IF ~isEscaping THEN i ELSE insertStart, FALSE)
              [] c = "{" -> Scan(str, values, i + 1,
                                 IF isEscaping THEN -1 ELSE insertStart, FALSE)
              [] c = "}" ->
                   IF insertStart # -1
                   THEN LET start == SubSeq(str, 1, insertStart)
                            id == ParseInt(SubSeq(str, insertStart + 3, i))
                            end == SubSeq(str, i + 2, Len(str))
                            value == IF id + 1 \in DOMAIN values
                                     THEN values[id + 1] ELSE Undefined
                        IN Scan(start \o Concatenated(value) \o end,
                                values, i + 1, -1, FALSE)
                   ELSE Scan(str, values, i + 1, insertStart, FALSE)
              [] OTHER -> Scan(str, values, i + 1, insertStart, FALSE)

\* Interpreter.interpolate, of the values it popped
Interpolate(format, values) == Scan(format, values, 0, -1, FALSE)

ZeroBased(seq) == [i \in 0..(Len(seq) - 1) |-> seq[i + 1]]

(***************************************************************************)
(* The Binary the interpreter runs.                                        *)
(***************************************************************************)
stringTable ==
    ZeroBased(<<"intro", "choice", "talk", "greet", "flagA", "sub", "flagB", "odd", "deep",
                "char", "getPlayerName", "raise", "ext",
                "info.name", "info.title", "info.line", "info.greeting", "info.empty">>)

\* the translation table the binary file carries
internalTranslation ==
    ZeroBased(<<"Line 1", "Line 2", "Line 3", "Yes", "No", "Hello", "Bye", "Sub">>)

I0(op) == [op |-> op, arg1 |-> 0, arg2 |-> 0]
I1(op, a) == [op |-> op, arg1 |-> a, arg2 |-> 0]
I2(op, a, b) == [op |-> op, arg1 |-> a, arg2 |-> b]

\* the bytecode, instruction by instruction, in the order it lies in the buffer
instructions ==
    << \* scene "intro", at 0
       I1("PushString", 0), I0("TextRun"),
       I1("PushString", 1), I0("TextRun"),
       I1("PushString", 2), I0("TextRun"),
       I0("Exit"),
       \* scene "choice", at 19
       I1("PushString", 0), I0("TextRun"),
       I0("ChoiceBegin"),
       I1("PushString", 3), I1("PushDouble", 1), I1("ChoiceAdd", 20),
       I1("PushString", 4), I1("PushDouble", 1), I1("ChoiceAdd", 8),
       I0("ChoiceSelect"),
       I1("PushString", 3), I0("TextRun"), I0("Exit"),      \* at 65
       I1("PushString", 4), I0("TextRun"), I0("Exit"),      \* at 72
       \* scene "talk", at 79; its flag initializer at 101 (value) and 107 (name)
       I1("PushInt", 7), I2("Call", 0, 1), I0("Pop"),
       I1("PushString", 6), I0("TextRun"), I0("Exit"),
       I1("PushInt", 1), I0("Exit"),
       I1("PushBinaryString", 4), I0("Exit"),
       \* function "greet", at 113; its flag initializer at 135 (value) and 141 (name)
       I1("PushString", 5), I0("TextRun"),
       I2("Call", 1, 0), I0("Pop"),
       I1("PushVarLocal", 1), I0("Return"),
       I1("PushInt", 2), I0("Exit"),
       I1("PushBinaryString", 6), I0("Exit"),
       \* function "sub", at 147
       I1("PushString", 7), I0("TextRun"), I0("Exit"),
       \* scene "odd", at 154
       I1("PushInt", 5), I1("SetVarLocal", 0),
       I1("PushInt", 5), I0("TextRun"), I0("TextRun"), I0("Exit"),
       \* scene "deep", at 172
       I1("PushInt", 3), I1("PushInt", 4), I2("Call", 0, 1),     \* Call at 182
       I0("Pop"), I0("Pop"), I0("Exit"),
       \* scene "ext", at 194
       I1("PushInt", 1), I1("PushInt", 2), I2("CallExternal", 9, 2),   \* at 204
       I0("Pop"),
       I1("PushInt", 3), I2("CallExternal", 10, 0),                   \* at 219
       I0("TextRun"),
       I2("CallExternal", 11, 1),                                     \* at 229
       I2("CallExternal", 0, 0),                                      \* at 238
       I0("Exit"),
       \* definition "info.greeting", at 248
       I1("PushInt", 7), I0("Exit"),
       \* definition "info.empty", at 254
       I2("CallExternal", 9, 0), I0("Exit")
    >>

scenes ==
    ZeroBased(<< [symbol |-> 0, instructionIndices |-> <<0>>],
                 [symbol |-> 1, instructionIndices |-> <<19>>],
                 [symbol |-> 2, instructionIndices |-> <<79, 101, 107>>],
                 [symbol |-> 7, instructionIndices |-> <<154>>],
                 [symbol |-> 8, instructionIndices |-> <<172>>],
                 [symbol |-> 12, instructionIndices |-> <<194>>] >>)

functions ==
    ZeroBased(<< [symbol |-> 3, instructionIndices |-> <<113, 135, 141>>],
                 [symbol |-> 5, instructionIndices |-> <<147>>] >>)

\* the names the host passes to runScene
SceneNames == {"intro", "choice", "talk", "odd", "greet", "nosuch"}

\* the indexes the host passes to chooseChoice
ChoiceIndexes == {-1, 0, 2}

(***************************************************************************)
(* Instruction decoding (the first switch of update()).                    *)
(***************************************************************************)
OneInt32 ==
    {"FreeLocal", "PushInt", "PushString", "PushBinaryString", "MakeArray",
     "SetVarGlobal", "SetVarLocal", "PushVarGlobal", "PushVarLocal", "Jump",
     "JumpTruthy", "JumpFalsey", "ChoiceAdd", "ChoiceAddTruthy", "ChooseAdd",
     "ChooseAddTruthy"}

TwoInt32 ==
    {"PushInterpolatedString", "PushBinaryInterpolatedString", "Call", "CallExternal"}

\* bytes of operands that follow the opcode byte
OperandWidth(op) ==
    CASE op \in OneInt32 -> 4
      [] op \in TwoInt32 -> 8
      [] op = "PushDouble" -> 8
      [] OTHER -> 0

RECURSIVE AddressOf(_)
\* the offset in the buffer of the i-th instruction
AddressOf(i) ==
    IF i = 1 THEN 0
    ELSE AddressOf(i - 1) + 1 + OperandWidth(instructions[i - 1].op)

InstructionAddress == [i \in 1..Len(instructions) |-> AddressOf(i)]

CodeSize == AddressOf(Len(instructions) + 1)

\* the instruction that starts at ip; reading the opcode outside the buffer
\* gives undefined, which no case of the switch matches
Fetch(ip) ==
    IF \E i \in DOMAIN InstructionAddress : InstructionAddress[i] = ip
    THEN instructions[CHOOSE i \in DOMAIN InstructionAddress : InstructionAddress[i] = ip]
    ELSE IF ip < 0 \/ ip >= CodeSize THEN I0("undefined") ELSE I0("misaligned")

(***************************************************************************)
(* Records as maps (Record<K, V>): a function whose domain is the keys.    *)
(***************************************************************************)
EmptyMap == << >>
HasKey(m, k) == k \in DOMAIN m
\* m[k], undefined for a missing key
Lookup(m, k) == IF k \in DOMAIN m THEN m[k] ELSE Undefined
Put(m, k, v) == [x \in (DOMAIN m) \cup {k} |-> IF x = k THEN v ELSE m[x]]
Remove(m, k) == [x \in (DOMAIN m) \ {k} |-> m[x]]

(***************************************************************************)
(* LocalVariableStore                                                      *)
(***************************************************************************)
NewStore == [variables |-> EmptyMap, flagMap |-> EmptyMap]

StoreCount(store) == Cardinality(DOMAIN store.variables) + Cardinality(DOMAIN store.flagMap)

\* if (this.flagMap[index]): the index maps to a flag name that is not ""
IsFlag(store, index) == HasKey(store.flagMap, index) /\ store.flagMap[index] # ""

StoreAdd(store, value) ==
    [store EXCEPT !.variables = Put(@, StoreCount(store), value)]

StoreGet(store, flags, index) ==
    IF IsFlag(store, index) THEN Lookup(flags, store.flagMap[index])
    ELSE Lookup(store.variables, index)

\* set() writes the flag of the interpreter or the variable of the store
StoreSetVariables(store, index, value) ==
    IF IsFlag(store, index) THEN store
    ELSE [store EXCEPT !.variables = Put(@, index, value)]

\* a set() that never writes a flag
StoreSetNoFlag(store, flags, index, value) == flags

StoreSetFlags(store, flags, index, value) ==
    IF IsFlag(store, index) THEN Put(flags, store.flagMap[index], value)
    ELSE flags

StoreDelete(store, index) ==
    IF index < Cardinality(DOMAIN store.flagMap)
    THEN [store EXCEPT !.flagMap = Remove(@, index)]
    ELSE IF Truthy(Lookup(store.variables, index))
         THEN [store EXCEPT !.variables = Remove(@, index)]
         ELSE store

StoreClear(store) == [store EXCEPT !.variables = EmptyMap]

RECURSIVE StoreAddUndefined(_, _)
\* add(undefined), n times
StoreAddUndefined(store, n) ==
    IF n <= 0 THEN store ELSE StoreAddUndefined(StoreAdd(store, Undefined), n - 1)

RECURSIVE StoreAddAll(_, _)
\* add(val[0]), add(val[1]), ...
StoreAddAll(store, vals) ==
    IF vals = <<>> THEN store ELSE StoreAddAll(StoreAdd(store, Head(vals)), Tail(vals))

(***************************************************************************)
(* Numbers: the JavaScript operators of update() on the modelled numbers.  *)
(***************************************************************************)
Abs(x) == IF x < 0 THEN -x ELSE x
Sign(x) == IF x < 0 THEN -1 ELSE 1

\* an integer result, kept when the model represents it
Norm(x) == IF Abs(x) <= MaxMagnitude THEN Num(x) ELSE Cut

JsAdd(a, b) == IF a.t = "nan" \/ b.t = "nan" THEN NaN ELSE Norm(a.v + b.v)
JsSub(a, b) == IF a.t = "nan" \/ b.t = "nan" THEN NaN ELSE Norm(a.v - b.v)
JsMul(a, b) == IF a.t = "nan" \/ b.t = "nan" THEN NaN ELSE Norm(a.v * b.v)

\* a / b: x / 0 is an infinity and a quotient with a remainder is no integer
JsDiv(a, b) ==
    IF a.t = "nan" \/ b.t = "nan" THEN NaN
    ELSE IF b.v = 0 THEN (IF a.v = 0 THEN NaN ELSE Cut)
    ELSE IF Abs(a.v) % Abs(b.v) = 0
         THEN Num(Sign(a.v) * Sign(b.v) * (Abs(a.v) \div Abs(b.v)))
         ELSE Cut

\* a % b: the remainder has the sign of the dividend
JsMod(a, b) ==
    IF a.t = "nan" \/ b.t = "nan" THEN NaN
    ELSE IF b.v = 0 THEN NaN
    ELSE Num(Sign(a.v) * (Abs(a.v) % Abs(b.v)))

RECURSIVE PowNat(_, _)
\* b ^ e for e >= 0, not multiplied further once beyond MaxMagnitude
PowNat(b, e) ==
    IF e = 0 THEN 1
    ELSE LET r == PowNat(b, e - 1) IN IF Abs(r) > MaxMagnitude THEN r ELSE r * b

\* Math.pow(a, b)
JsPow(a, b) ==
    IF b.t = "num" /\ b.v = 0 THEN Num(1)
    ELSE IF a.t = "nan" \/ b.t = "nan" THEN NaN
    ELSE IF b.v > 0 THEN (IF Abs(a.v) <= 1 THEN Num(PowNat(a.v, (b.v % 2) + 2))
                          ELSE IF b.v > MaxMagnitude THEN Cut
                          ELSE Norm(PowNat(a.v, b.v)))
    ELSE IF a.v = 1 THEN Num(1)
    ELSE IF a.v = -1 THEN Num(IF (-b.v) % 2 = 0 THEN 1 ELSE -1)
    ELSE Cut

\* ToInt32 of a modelled number
ToInt32(a) == IF a.t = "nan" THEN 0 ELSE a.v

\* two's complement words wide enough for every modelled number
WordBits == 12
Word == 2 ^ WordBits
ToWord(x) == x % Word
FromWord(u) == IF u >= Word \div 2 THEN u - Word ELSE u

RECURSIVE BitOp(_, _, _, _)
BitOp(kind, u, v, n) ==
    IF n = 0 THEN 0
    ELSE LET x == u % 2
             y == v % 2
             bit == CASE kind = "and" -> IF x = 1 /\ y = 1 THEN 1 ELSE 0
                      [] kind = "or" -> IF x = 1 \/ y = 1 THEN 1 ELSE 0
                      [] OTHER -> IF x # y THEN 1 ELSE 0
         IN bit + 2 * BitOp(kind, u \div 2, v \div 2, n - 1)

JsBit(kind, a, b) ==
    IF 2 * MaxMagnitude >= Word THEN Cut
    ELSE Norm(FromWord(BitOp(kind, ToWord(ToInt32(a)), ToWord(ToInt32(b)), WordBits)))

JsBitNot(a) == Norm(-ToInt32(a) - 1)

\* a << b: the shift count is b & 31
JsShl(a, b) ==
    LET n == ToInt32(b) % 32
    IN IF ToInt32(a) = 0 THEN Num(0)
       ELSE IF n > WordBits THEN Cut
       ELSE Norm(ToInt32(a) * 2 ^ n)

\* a >> b keeps the sign
JsShr(a, b) ==
    LET n == ToInt32(b) % 32
    IN IF n > WordBits THEN Num(IF ToInt32(a) < 0 THEN -1 ELSE 0)
       ELSE Num(ToInt32(a) \div (2 ^ n))

Bool01(b) == Num(IF b THEN 1 ELSE 0)
BothNum(a, b) == a.t = "num" /\ b.t = "num"
JsEq(a, b) == Bool01(BothNum(a, b) /\ a.v = b.v)
JsNeq(a, b) == Bool01(~(BothNum(a, b) /\ a.v = b.v))
JsGt(a, b) == Bool01(BothNum(a, b) /\ a.v > b.v)
JsLt(a, b) == Bool01(BothNum(a, b) /\ a.v < b.v)
JsGte(a, b) == Bool01(BothNum(a, b) /\ a.v >= b.v)
JsLte(a, b) == Bool01(BothNum(a, b) /\ a.v <= b.v)

\* the strings of the binary; none of them reads as a number
TableStrings ==
    {stringTable[i] : i \in DOMAIN stringTable} \cup
    {internalTranslation[i] : i \in DOMAIN internalTranslation}

\* unary minus: -v converts v to a number first
JsNegate(v) ==
    CASE v.t = "num" -> Num(-v.v)
      [] v.t = "nan" -> NaN
      [] v.t = "undef" -> NaN
      [] v.t = "str" -> IF v.v = "" THEN Num(0)
                        ELSE IF v.v \in TableStrings THEN NaN ELSE Cut
      [] v.t = "arr" -> IF v.v = <<>> THEN Num(0) ELSE Cut
      [] OTHER -> Cut

(***************************************************************************)
(* The interpreter's state as a record s: the fields of class Interpreter, *)
(* and what one call of a method did besides:                              *)
(*   thrown     the call threw an exception                                *)
(*   error      the exception, by its message or its type where these are  *)
(*              told apart, "exception" otherwise                          *)
(*   cut        the call left what the model represents                    *)
(*   callbacks  the host callbacks the call invoked (chanceCallback,       *)
(*              weightedChanceCallback, FunctionHandler.invoke)            *)
(***************************************************************************)
\* Array.pop(): undefined from an empty array
Top(st) == IF st = <<>> THEN Undefined ELSE st[Len(st)]
Rest(st) == IF st = <<>> THEN <<>> ELSE SubSeq(st, 1, Len(st) - 1)

\* val[i] = this.#stack.pop() for 0 <= i < n, as << val[0], .., val[n-1] >>
PopValues(st, n) ==
    [i \in 1..n |-> IF i <= Len(st) THEN st[Len(st) - i + 1] ELSE Undefined]
RestAfter(st, n) == IF n >= Len(st) THEN <<>> ELSE SubSeq(st, 1, Len(st) - n)

Throw(s) == [s EXCEPT !.thrown = TRUE, !.error = "exception"]
Push(s, v) == IF v = Cut THEN [s EXCEPT !.cut = TRUE] ELSE [s EXCEPT !.stack = Append(@, v)]
Drop(s, n) == [s EXCEPT !.stack = RestAfter(@, n)]

\* the functions the host registered with the FunctionHandler, by their result
registeredFunctions == [char |-> Str(""), getPlayerName |-> Str("Player 1")]

\* the functions the host registered that throw when they are called
throwingFunctions == {"raise"}

\* the default chanceCallback: d == 1 || Math.random() < d
ChanceCallback(d, rnd) ==
    d.t = "num" /\ (d.v = 1 \/ rnd < d.v * RandomScale)

RECURSIVE PrefixSums(_, _)
\* fixedWeights: each weight's sum of the weights before it
PrefixSums(weights, sum) ==
    IF weights = <<>> THEN <<>>
    ELSE <<sum>> \o PrefixSums(Tail(weights), sum + Head(weights))

RECURSIVE SumOf(_)
SumOf(weights) == IF weights = <<>> THEN 0 ELSE Head(weights) + SumOf(Tail(weights))

RECURSIVE SelectFrom(_, _, _, _, _)
\* the selection loop over fixedWeights[i .. ]
SelectFrom(fixed, i, rounded, selection, previous) ==
    IF i > Len(fixed) THEN selection
    ELSE IF rounded >= fixed[i] /\ fixed[i] > previous
         THEN SelectFrom(fixed, i + 1, rounded, i - 1, fixed[i])
         ELSE SelectFrom(fixed, i + 1, rounded, selection, previous)

\* Math.round(x) for x = num / den, den > 0
RoundRatio(num, den) == (2 * num + den) \div (2 * den)

\* the default weightedChanceCallback, Math.random() being rnd / RandomScale
WeightedChanceCallback(weights, rnd) ==
    LET sum == SumOf(weights)
        rounded == RoundRatio(rnd * (sum - 1), RandomScale)
    IN SelectFrom(PrefixSums(weights, 0), 1, rounded, -1, -1)

\* if (typeof a === "number" && typeof b === "number") push(b op a), a popped first
Binary(s, Op(_, _)) ==
    LET a == Top(s.stack)
        b == Top(Rest(s.stack))
    IN IF IsNumber(a) /\ IsNumber(b) THEN Push(Drop(s, 2), Op(b, a)) ELSE Drop(s, 2)

\* constructArray: values.push(this.#stack.pop()), elementCount times
ConstructArray(st, elementCount) == Arr(PopValues(st, elementCount))

\* arr[indx] for a number indx
ElementAt(arr, indx) ==
    IF arr.t = "arr" /\ indx.t = "num" /\ indx.v >= 0 /\ indx.v < Len(arr.v)
    THEN arr.v[indx.v + 1]
    ELSE IF arr.t = "str" /\ indx.t = "num" /\ arr.v # "" THEN Cut
    ELSE Undefined

\* arr[indx] = val on an array
WithElement(arr, indx, val) ==
    IF indx.t # "num" \/ indx.v < 0 THEN arr
    ELSE Arr([i \in 1..(IF indx.v + 1 > Len(arr.v) THEN indx.v + 1 ELSE Len(arr.v)) |->
                IF i = indx.v + 1 THEN val
                ELSE IF i <= Len(arr.v) THEN arr.v[i] ELSE Undefined])

\* if (!this.flags[name]) this.setFlag(name, value)
InitFlag(flags, name, value) ==
    IF Truthy(Lookup(flags, name)) THEN flags ELSE Put(flags, name, value)

RECURSIVE Update(_, _), RunToPause(_, _, _), FlagInitializers(_, _, _, _, _, _)

\* In the operators below, CHOOSE r \in {F(x) : x \in {e}} : TRUE is F(e), with
\* the state e computed once.

\* while (!this.paused) { this.update(); }
RunToPause(s, rnd, fuel) ==
    IF s.thrown \/ s.cut \/ s.paused THEN s
    ELSE IF fuel = 0 THEN [s EXCEPT !.cut = TRUE]
    ELSE CHOOSE r \in {RunToPause(next, rnd, fuel - 1) : next \in {Update(s, rnd)}} : TRUE

\* the end of one pass of the flag initializer loop: s is the state after
\* the name was popped
FlagStore(s, value, popped, indexes, i, flagIndex, rnd, inRunScene) ==
    LET name == IF inRunScene THEN ToStringValue(popped) ELSE popped.v
    IN IF inRunScene /\ popped = Undefined THEN Throw(s)
       ELSE IF ~inRunScene /\ ~IsString(popped)
            THEN FlagInitializers(s, indexes, i + 2, flagIndex + 1, rnd, inRunScene)
       ELSE CHOOSE r \in
              {FlagInitializers(next, indexes, i + 2, flagIndex + 1, rnd, inRunScene) :
                 next \in {[s EXCEPT !.flags = InitFlag(@, name, value),
                                     !.localVarStore.flagMap = Put(@, flagIndex, name)]}} : TRUE

\* the second half of one pass: s is the state after the value's code ran
FlagName(s, indexes, i, flagIndex, rnd, inRunScene) ==
    IF s.thrown \/ s.cut THEN s
    ELSE CHOOSE r \in
           {IF s2.thrown \/ s2.cut THEN s2
            ELSE FlagStore([s2 EXCEPT !.stack = Rest(@)], Top(s.stack), Top(s2.stack),
                           indexes, i, flagIndex, rnd, inRunScene) :
              s2 \in {RunToPause([s EXCEPT !.stack = Rest(@),
                                           !.instructionPointer = indexes[i + 2],
                                           !.paused = FALSE], rnd, MaxRun)}} : TRUE

\* The flag initializer loop of runScene (inRunScene) and of Opcode.Call,
\* from the pair (bytecodeIndexes[i], bytecodeIndexes[i + 1]) on; indexes
\* is bytecodeIndexes as a sequence, so bytecodeIndexes[i] is indexes[i + 1].
FlagInitializers(s, indexes, i, flagIndex, rnd, inRunScene) ==
    IF s.thrown \/ s.cut \/ i >= Len(indexes) THEN s
    ELSE IF i + 2 > Len(indexes) THEN [s EXCEPT !.cut = TRUE]
    ELSE CHOOSE r \in
           {FlagName(s1, indexes, i, flagIndex, rnd, inRunScene) :
              s1 \in {RunToPause([s EXCEPT !.instructionPointer = indexes[i + 1],
                                           !.paused = FALSE], rnd, MaxRun)}} : TRUE

\* an Exit that keeps the local variables
ExitKeepsLocals(s) ==
    LET cs == s.callStack[Len(s.callStack)]
    IN IF Len(s.callStack) = 0
       THEN [s EXCEPT !.instructionPointer = -1,
                      !.paused = TRUE,
                      !.sceneCompleted = TRUE]
       ELSE [s EXCEPT !.callStack = Rest(@),
                      !.instructionPointer = cs.id,
                      !.stack = Append(cs.stack, Undefined),
                      !.localVarStore = cs.variable]

\* this.#stack.push(this.interpolate(format, exprCount))
ExecInterpolate(s, format, exprCount) ==
    Push(Drop(s, exprCount), Str(Interpolate(format, PopValues(s.stack, exprCount))))

\* Opcode.Exit
ExecExit(s) ==
    LET s1 == [s EXCEPT !.localVarStore = StoreClear(@)]
        cs == s.callStack[Len(s.callStack)]
    IN IF Len(s.callStack) = 0
       THEN [s1 EXCEPT !.instructionPointer = -1,
                       !.paused = TRUE,
                       !.sceneCompleted = TRUE]
       ELSE [s1 EXCEPT !.callStack = Rest(@),
                       !.instructionPointer = cs.id,
                       !.stack = Append(cs.stack, Undefined),
                       !.localVarStore = cs.variable]

\* a Return that drops the returned value
ReturnDropsValue(s) ==
    LET s1 == [s EXCEPT !.localVarStore = StoreClear(@), !.stack = Rest(@)]
        cs == s.callStack[Len(s.callStack)]
    IN IF Len(s.callStack) = 0 THEN Throw(s1)
       ELSE [s1 EXCEPT !.callStack = Rest(@),
                       !.instructionPointer = cs.id,
                       !.stack = cs.stack,
                       !.localVarStore = cs.variable]

\* Opcode.Return; callStack.pop() of an empty call stack is undefined
ExecReturn(s) ==
    LET returnVal == Top(s.stack)
        s1 == [s EXCEPT !.localVarStore = StoreClear(@), !.stack = Rest(@)]
        cs == s.callStack[Len(s.callStack)]
    IN IF Len(s.callStack) = 0 THEN Throw(s1)
       ELSE [s1 EXCEPT !.callStack = Rest(@),
                       !.instructionPointer = cs.id,
                       !.stack = Append(cs.stack, returnVal),
                       !.localVarStore = cs.variable]

\* the last statement of the flag initializer part of Opcode.Call
\* a Call that leaves paused as its flag initializers left it
CallKeepsPaused(s) == s

CallResetPaused(s) == [s EXCEPT !.paused = FALSE]

\* Opcode.Call
ExecCall(s, id, argc, rnd) ==
    LET val == PopValues(s.stack, argc)
        temp == Append(s.callStack,
                       [id |-> s.instructionPointer,
                        stack |-> RestAfter(s.stack, argc),
                        variable |-> s.localVarStore])
        s1 == [s EXCEPT !.callStack = <<>>, !.stack = <<>>, !.localVarStore = NewStore]
    IN IF Len(s.callStack) >= MaxCallDepth THEN [s EXCEPT !.cut = TRUE]
       ELSE IF id \notin DOMAIN functions THEN Throw(s1)
       ELSE CHOOSE r \in
              {IF s2.thrown \/ s2.cut THEN s2
               ELSE [CallResetPaused(s2) EXCEPT
                        !.callStack = temp,
                        !.instructionPointer = functions[id].instructionIndices[1],
                        !.localVarStore = StoreAddAll(@, val)] :
                 s2 \in {FlagInitializers(s1, functions[id].instructionIndices,
                                           1, 0, rnd, FALSE)}} : TRUE

\* a CallExternal that passes the arguments in the order they were pushed
CallExternalReversed(s, nameIndex, argc) ==
    LET name == stringTable[nameIndex]
        val == SubSeq(s.stack, Len(s.stack) - argc + 1, Len(s.stack))
        s1 == [Drop(s, argc) EXCEPT !.callbacks = @ + 1,
                                    !.invoked = Append(@, [name |-> name, args |-> val])]
    IN IF nameIndex \notin DOMAIN stringTable THEN [s EXCEPT !.cut = TRUE]
       ELSE IF name \in throwingFunctions THEN Throw(s1)
       ELSE IF name \in DOMAIN registeredFunctions
            THEN Push(s1, registeredFunctions[name])
            ELSE Throw(Drop(s, argc))

\* Opcode.CallExternal
ExecCallExternal(s, nameIndex, argc) ==
    LET name == stringTable[nameIndex]
        val == PopValues(s.stack, argc)
        s1 == [Drop(s, argc) EXCEPT !.callbacks = @ + 1,
                                    !.invoked = Append(@, [name |-> name, args |-> val])]
    IN IF nameIndex \notin DOMAIN stringTable THEN [s EXCEPT !.cut = TRUE]
       ELSE IF name \in throwingFunctions THEN Throw(s1)
       ELSE IF name \in DOMAIN registeredFunctions
            THEN Push(s1, registeredFunctions[name])
            ELSE Throw(Drop(s, argc))

\* Opcode.SetVarLocal
ExecSetVarLocal(s, id) ==
    LET val == Top(s.stack)
        store == s.localVarStore
        s1 == Drop(s, 1)
    IN IF id >= StoreCount(store)
       THEN [s1 EXCEPT !.localVarStore =
                StoreAdd(StoreAddUndefined(store, id - StoreCount(store) - 1), val)]
       ELSE [s1 EXCEPT !.localVarStore = StoreSetVariables(store, id, val),
                       !.flags = StoreSetFlags(store, @, id, val)]

\* this.choices[address] = text: `choices` is a getter that returns a new
\* array (the texts of #choices), so the assignment writes an element of that
\* copy and #choices keeps its contents
ChoiceAddStore(choices, address, text) == choices

\* Opcode.ChoiceAdd and Opcode.ChoiceAddTruthy
ExecChoiceAdd(s, off, truthy, rnd) ==
    LET chance == Top(s.stack)
        text == Top(Rest(s.stack))
        condition == Top(Rest(Rest(s.stack)))
        s1 == Drop(s, IF truthy THEN 3 ELSE 2)
        asks == IsNumber(chance) /\ IsString(text) /\ (truthy => Truthy(condition))
    IN IF ~s.inChoice THEN Throw(s)
       ELSE IF asks
            THEN [s1 EXCEPT !.callbacks = @ + 1,
                            !.choices = IF ChanceCallback(chance, rnd)
                                        THEN ChoiceAddStore(@, s.instructionPointer + off, text)
                                        ELSE @]
       ELSE s1

\* a ChoiceSelect that waits for the host without testing anything
ChoiceSelectAlways(s) == [s EXCEPT !.selectChoice = TRUE, !.paused = TRUE]

\* Opcode.ChoiceSelect
ExecChoiceSelect(s) ==
    IF ~s.inChoice THEN Throw(s)
    ELSE IF Len(s.choices) = 0 THEN Throw(s)
    ELSE [s EXCEPT !.selectChoice = TRUE, !.paused = TRUE]

\* Opcode.ChooseAdd and Opcode.ChooseAddTruthy
ExecChooseAdd(s, off, truthy) ==
    LET chance == Top(s.stack)
        s1 == Drop(s, 1)
        option == [value |-> chance, pointer |-> s.instructionPointer + off]
    IN IF ~IsNumber(chance) THEN s1
       ELSE IF chance.t # "num" THEN [s EXCEPT !.cut = TRUE]
       ELSE IF ~truthy THEN [s1 EXCEPT !.chooseOptions = Append(@, option)]
       ELSE IF Truthy(Top(s1.stack))
            THEN [Drop(s1, 1) EXCEPT !.chooseOptions = Append(@, option)]
            ELSE Drop(s1, 1)

\* Opcode.ChooseSelect, selection being the integer weightedChanceCallback
\* returned; chooseOptions[selection] is undefined for a negative selection
\* and reading its pointer throws a TypeError
ChooseSelectOf(s, selection) ==
    LET s1 == [s EXCEPT !.callbacks = @ + 1]
    IN IF selection = -1 \/ selection >= Len(s.chooseOptions)
       THEN [s1 EXCEPT !.thrown = TRUE,
                       !.error = "Selection returned by WeightedChanceCallback was out of bounds."]
       ELSE IF selection < 0 THEN [s1 EXCEPT !.thrown = TRUE, !.error = "TypeError"]
       ELSE [s1 EXCEPT !.instructionPointer = s.chooseOptions[selection + 1].pointer,
                       !.chooseOptions = <<>>]

\* a ChooseSelect that takes the first option recorded
ChooseSelectFirst(s, rnd) ==
    LET s1 == [s EXCEPT !.callbacks = @ + 1]
    IN IF s.chooseOptions = <<>> THEN Throw(s1)
       ELSE [s1 EXCEPT !.instructionPointer = s.chooseOptions[1].pointer,
                       !.chooseOptions = <<>>]

\* Opcode.ChooseSelect
ExecChooseSelect(s, rnd) ==
    LET weights == [i \in 1..Len(s.chooseOptions) |-> s.chooseOptions[i].value.v]
    IN ChooseSelectOf(s, WeightedChanceCallback(weights, rnd))

\* a TextRun that reads the text without popping it
TextRunKeepsValue(s) ==
    LET text == Top(s.stack)
    IN IF IsString(text)
       THEN [s EXCEPT !.currentText = text, !.runningText = TRUE, !.paused = TRUE]
       ELSE s

\* Opcode.TextRun
ExecTextRun(s) ==
    LET text == Top(s.stack)
        s1 == Drop(s, 1)
    IN IF IsString(text)
       THEN [s1 EXCEPT !.currentText = text, !.runningText = TRUE, !.paused = TRUE]
       ELSE s1

\* Opcode.PushArrayIndex
ExecPushArrayIndex(s) ==
    LET indx == Top(s.stack)
        arr == Top(Rest(s.stack))
        s1 == Drop(s, 2)
    IN IF ~IsNumber(indx) THEN s1
       ELSE IF arr = Undefined THEN Throw(s1)
       ELSE Push(s1, ElementAt(arr, indx))

\* Opcode.SetArrayIndex; the module is strict code, where an assignment to
\* an element of a string or a number throws
ExecSetArrayIndex(s) ==
    LET val == Top(s.stack)
        indx == Top(Rest(s.stack))
        arr == Top(Rest(Rest(s.stack)))
        s1 == Drop(s, 3)
    IN IF ~IsNumber(indx) THEN Push(s1, arr)
       ELSE IF arr.t = "arr" THEN Push(s1, WithElement(arr, indx, val))
       ELSE Throw(s1)

\* the key this.binary.stringTable[i] of a global variable
GlobalName(i) == IF i \in DOMAIN stringTable THEN stringTable[i] ELSE "undefined"

\* the second switch of update(), for the decoded instruction ins; s is the
\* state with the instruction pointer behind the instruction
Execute(s, ins, rnd) ==
    LET op == ins.op
        arg1 == ins.arg1
        arg2 == ins.arg2
        st == s.stack
    IN CASE op = "Nop" -> s
         [] op = "FreeLocal" -> [s EXCEPT !.localVarStore = StoreDelete(@, arg1)]
         [] op = "Save" -> [s EXCEPT !.saveRegister = Top(st)]
         [] op = "Load" -> Push(s, s.saveRegister)
         [] op = "PushUndefined" -> Push(s, Undefined)
         [] op = "PushInt" -> Push(s, Num(arg1))
         [] op = "PushDouble" -> Push(s, Num(arg1))
         [] op = "PushString" ->
                Push(s, IF arg1 \in DOMAIN s.translationTable
                        THEN Str(s.translationTable[arg1]) ELSE Undefined)
         [] op = "PushBinaryString" ->
                Push(s, IF arg1 \in DOMAIN stringTable
                        THEN Str(stringTable[arg1]) ELSE Undefined)
         [] op = "PushInterpolatedString" ->
                IF arg1 \in DOMAIN s.translationTable
                THEN ExecInterpolate(s, s.translationTable[arg1], arg2)
                ELSE [s EXCEPT !.cut = TRUE]
         [] op = "PushBinaryInterpolatedString" ->
                IF arg1 \in DOMAIN stringTable
                THEN ExecInterpolate(s, stringTable[arg1], arg2)
                ELSE [s EXCEPT !.cut = TRUE]
         [] op = "MakeArray" -> Push(Drop(s, arg1), ConstructArray(st, arg1))
         [] op = "PushArrayIndex" -> ExecPushArrayIndex(s)
         [] op = "SetArrayIndex" -> ExecSetArrayIndex(s)
         [] op = "SetVarGlobal" ->
                [Drop(s, 1) EXCEPT !.globalVariableStore = Put(@, GlobalName(arg1), Top(st))]
         [] op = "SetVarLocal" -> ExecSetVarLocal(s, arg1)
         [] op = "PushVarGlobal" -> Push(s, Lookup(s.globalVariableStore, GlobalName(arg1)))
         [] op = "PushVarLocal" -> Push(s, StoreGet(s.localVarStore, s.flags, arg1))
         [] op = "Pop" -> Drop(s, 1)
         [] op = "Duplicate" -> Push(Push(Drop(s, 1), Top(st)), Top(st))
         [] op = "Duplicate2" ->
                LET val1 == Top(st)
                    val2 == Top(Rest(st))
                IN Push(Push(Push(Push(Drop(s, 2), val2), val1), val2), val1)
         [] op = "Add" -> Binary(s, JsAdd)
         [] op = "Subtract" -> Binary(s, JsSub)
         [] op = "Multiply" -> Binary(s, JsMul)
         [] op = "Divide" -> Binary(s, JsDiv)
         [] op = "Modulo" -> Binary(s, JsMod)
         [] op = "Negate" -> Push(Drop(s, 1), JsNegate(Top(st)))
         [] op = "Invert" -> Push(Drop(s, 1), Num(IF Truthy(Top(st)) THEN 0 ELSE 1))
         [] op = "BitLeftShift" -> Binary(s, JsShl)
         [] op = "BitRightShift" -> Binary(s, JsShr)
         [] op = "BitAnd" -> Binary(s, LAMBDA a, b : JsBit("and", a, b))
         [] op = "BitOr" -> Binary(s, LAMBDA a, b : JsBit("or", a, b))
         [] op = "BitExclusiveOr" -> Binary(s, LAMBDA a, b : JsBit("xor", a, b))
         [] op = "BitNegate" ->
                IF IsNumber(Top(st)) THEN Push(Drop(s, 1), JsBitNot(Top(st))) ELSE Drop(s, 1)
         [] op = "Power" -> Binary(s, JsPow)
         [] op = "CompareEqual" -> Binary(s, JsEq)
         [] op = "CompareGreaterThan" -> Binary(s, JsGt)
         [] op = "CompareLessThan" -> Binary(s, JsLt)
         [] op = "CompareGreaterThanEqual" -> Binary(s, JsGte)
         [] op = "CompareLessThanEqual" -> Binary(s, JsLte)
         [] op = "CompareNotEqual" -> Binary(s, JsNeq)
         [] op = "Jump" -> [s EXCEPT !.instructionPointer = @ + arg1]
         [] op \in {"JumpTruthy", "JumpFalsey"} ->
                IF Truthy(Top(st))
                THEN [Drop(s, 1) EXCEPT !.instructionPointer = @ + arg1]
                ELSE Drop(s, 1)
         [] op = "Exit" -> ExecExit(s)
         [] op = "Return" -> ExecReturn(s)
         [] op = "Call" -> ExecCall(s, arg1, arg2, rnd)
         [] op = "CallExternal" -> ExecCallExternal(s, arg1, arg2)
         [] op = "ChoiceBegin" ->
                IF s.inChoice THEN Throw(s) ELSE [s EXCEPT !.inChoice = TRUE]
         [] op = "ChoiceAdd" -> ExecChoiceAdd(s, arg1, FALSE, rnd)
         [] op = "ChoiceAddTruthy" -> ExecChoiceAdd(s, arg1, TRUE, rnd)
         [] op = "ChoiceSelect" -> ExecChoiceSelect(s)
         [] op = "ChooseAdd" -> ExecChooseAdd(s, arg1, FALSE)
         [] op = "ChooseAddTruthy" -> ExecChooseAdd(s, arg1, TRUE)
         [] op = "ChooseSelect" -> ExecChooseSelect(s, rnd)
         [] op = "TextRun" -> ExecTextRun(s)
         [] op = "misaligned" -> [s EXCEPT !.cut = TRUE]
         [] OTHER -> s

\* update()
\* an update() without `if (this.paused) return;`
UpdateWhilePaused(s, rnd) ==
    LET ins == Fetch(s.instructionPointer)
    IN Execute([s EXCEPT !.instructionPointer = @ + 1 + OperandWidth(ins.op)], ins, rnd)

Update(s, rnd) ==
    IF s.paused THEN s
    ELSE LET ins == Fetch(s.instructionPointer)
         IN Execute([s EXCEPT !.instructionPointer = @ + 1 + OperandWidth(ins.op)], ins, rnd)

\* a lookupScene that falls back to the first scene
LookupSceneOrFirst(sceneName) ==
    LET ids == {i \in DOMAIN stringTable : stringTable[i] = sceneName}
        id == CHOOSE i \in ids : \A j \in ids : i <= j
        found == {k \in DOMAIN scenes : scenes[k].symbol = id}
    IN IF ids = {} \/ found = {} THEN 0
       ELSE CHOOSE k \in found : \A j \in found : k <= j

\* lookupScene: the index of the scene, -1 where it throws
LookupScene(sceneName) ==
    LET ids == {i \in DOMAIN stringTable : stringTable[i] = sceneName}
        id == CHOOSE i \in ids : \A j \in ids : i <= j
        found == {k \in DOMAIN scenes : scenes[k].symbol = id}
    IN IF ids = {} \/ found = {} THEN -1
       ELSE CHOOSE k \in found : \A j \in found : k <= j

\* runScene(sceneName)
RunScene(s, sceneName, rnd) ==
    LET sceneId == LookupScene(sceneName)
        bytecodeIndexes == scenes[sceneId].instructionIndices
        s1 == [s EXCEPT !.localVarStore = NewStore, !.stack = <<>>]
    IN IF sceneId = -1 THEN Throw(s)
       ELSE CHOOSE r \in
              {IF s2.thrown \/ s2.cut THEN s2
               ELSE [s2 EXCEPT !.paused = FALSE,
                               !.instructionPointer = bytecodeIndexes[1],
                               !.currentScene = Str(sceneName)] :
                 s2 \in {FlagInitializers(s1, bytecodeIndexes, 1, 0, rnd, TRUE)}} : TRUE

\* bit 31 of a reference, in words of WordBits bits
TopBit == Word \div 2

\* the definitions of the binary read by the hosts that load translation
\* files: a string of the string table (at 0, at 9), a line of the
\* translation, and two interpolated lines
BinaryDefinitions ==
    << [symbol |-> 13, reference |-> TopBit + 0, instructionIndex |-> -1],
       [symbol |-> 14, reference |-> TopBit + 9, instructionIndex |-> -1],
       [symbol |-> 15, reference |-> 2, instructionIndex |-> -1],
       [symbol |-> 16, reference |-> 0, instructionIndex |-> 248],
       [symbol |-> 17, reference |-> 1, instructionIndex |-> 254] >>

\* table[index]
TableEntry(table, index) ==
    IF index \in DOMAIN table THEN Str(table[index]) ELSE Undefined

\* getDefinition(def) of a Definition; interpolate(undefined, ...) throws
\* after it popped the values
GetDefinition(s, def, rnd) ==
    LET strRef == def.reference
        bytecodeIndex == def.instructionIndex
        value == IF BitOp("xor", strRef, TopBit, WordBits) = 0
                 THEN TableEntry(stringTable, BitOp("and", strRef, TopBit - 1, WordBits))
                 ELSE TableEntry(s.translationTable, strRef)
    IN IF bytecodeIndex = -1 THEN [s EXCEPT !.returned = value]
       ELSE CHOOSE r \in
              {IF s1.thrown \/ s1.cut THEN s1
               ELSE IF value = Undefined THEN Throw([s1 EXCEPT !.stack = << >>])
               ELSE [s1 EXCEPT !.stack = << >>,
                               !.instructionPointer = s.instructionPointer,
                               !.returned = Str(Interpolate(value.v,
                                                 PopValues(s1.stack, Len(s1.stack))))] :
                 s1 \in {RunToPause([s EXCEPT !.instructionPointer = bytecodeIndex,
                                              !.paused = FALSE], rnd, MaxRun)}} : TRUE

\* lookupDefinition: the definitions with the name; none where it throws
LookupDefinition(defs, defName) ==
    {i \in DOMAIN defs : /\ defs[i].symbol \in DOMAIN stringTable
                         /\ stringTable[defs[i].symbol] = defName}

\* getDefinition(name) of a name
GetDefinitionNamed(s, defs, name, rnd) ==
    LET found == LookupDefinition(defs, name)
    IN IF name \in DOMAIN s.definitionsCache /\ Truthy(s.definitionsCache[name])
       THEN [s EXCEPT !.returned = s.definitionsCache[name]]
       ELSE IF found = {} THEN Throw(s)
       ELSE GetDefinition(s, defs[CHOOSE i \in found : \A j \in found : i <= j], rnd)

RECURSIVE ResolveDefinitions(_, _, _, _)
\* for (const def of this.binary.definitions) { ... }, from the i-th on
ResolveDefinitions(s, defs, i, rnd) ==
    IF i > Len(defs) \/ s.thrown \/ s.cut THEN s
    ELSE CHOOSE r \in
           {IF s1.thrown \/ s1.cut THEN s1
            ELSE ResolveDefinitions(
                   [s1 EXCEPT !.definitionsCache =
                                 Put(@, stringTable[defs[i].symbol], s1.returned),
                              !.returned = Cut],
                   defs, i + 1, rnd) :
              s1 \in {GetDefinition(s, defs[i], rnd)}} : TRUE

\* the lines of a translation file that are kept
KeptLine(line) ==
    /\ ~(Len(line) >= 1 /\ SubSeq(line, 1, 1) = "#")
    /\ ~(Len(line) >= 1 /\ SubSeq(line, 1, 1) = "@")
    /\ \E i \in 1..Len(line) : SubSeq(line, i, i) # " "

\* a loadTranslationFile that keeps the lines loaded before
LoadAppends(s, fileContents, defs, rnd) ==
    ResolveDefinitions(
        [s EXCEPT !.translationTable =
                      ZeroBased([i \in 1..Cardinality(DOMAIN @) |-> @[i - 1]]
                                   \o SelectSeq(fileContents, KeptLine)),
                  !.translationLoaded = TRUE],
        defs, 1, rnd)

\* loadTranslationFile(path), of the lines of the file
LoadTranslationFile(s, fileContents, defs, rnd) ==
    ResolveDefinitions(
        [s EXCEPT !.translationTable = ZeroBased(SelectSeq(fileContents, KeptLine)),
                  !.translationLoaded = TRUE],
        defs, 1, rnd)

\* a chooseChoice that resumes execution before it throws
ChooseChoiceUnpauses(s, idx) ==
    IF idx >= Len(s.choices) THEN Throw([s EXCEPT !.paused = FALSE])
    ELSE IF idx < 0 THEN Throw(s)
    ELSE [s EXCEPT !.instructionPointer = s.choices[idx + 1].address,
                   !.selectChoice = FALSE,
                   !.paused = FALSE]

\* chooseChoice(idx); #choices[idx] is undefined for an idx below 0
ChooseChoice(s, idx) ==
    IF idx >= Len(s.choices) THEN Throw(s)
    ELSE IF idx < 0 THEN Throw(s)
    ELSE [s EXCEPT !.instructionPointer = s.choices[idx + 1].address,
                   !.selectChoice = FALSE,
                   !.paused = FALSE]

\* a resume() that leaves runningText alone
ResumeKeepsText(s) ==
    IF s.currentScene = Null \/ ~s.paused THEN s
    ELSE IF ~s.selectChoice THEN [s EXCEPT !.paused = FALSE]
    ELSE s

\* resume()
Resume(s) ==
    LET s1 == [s EXCEPT !.runningText = FALSE]
    IN IF s1.currentScene = Null \/ ~s1.paused THEN s1
       ELSE IF ~s1.selectChoice THEN [s1 EXCEPT !.paused = FALSE]
       ELSE s1

(***************************************************************************)
(* The state: the fields of the Interpreter, and history variables that    *)
(* record what the host's last call was and did.                           *)
(***************************************************************************)
VARIABLES
    instructionPointer, stack, saveRegister, localVarStore, callStack,
    globalVariableStore, flags, choices, chooseOptions,
    inChoice, selectChoice, runningText, paused, sceneCompleted,
    currentScene, currentText,
    lastCall,       \* the method the host called last: "new" after construction
    lastIndex,      \* the index it passed to chooseChoice; 0 for another method
    lastThrown,     \* that call threw
    lastError,      \* the exception it threw, "" for none: the message of the
                    \* Error of ChooseSelect, "TypeError", or "exception"
    lastCallbacks,  \* the host callbacks that call invoked
    lastInvoked,    \* the functions of the FunctionHandler it invoked, in order,
                    \* each with its arguments
    lastOpcode,     \* the opcode the last update() decoded; "none" when it returned at once
    lastAddress,    \* the instruction pointer it was decoded at; 0 when none was
    pauseCause,     \* while paused: the opcode of the update() that turned paused
                    \* from false to true ("none" when no update() did)
    pauseAddress,   \* and its address (0 when no update() did)
    shown,          \* the texts that top-level TextRun's surfaced since the last runScene
    accepted,       \* the choices added since the last ChoiceBegin or runScene
                    \* whose chance was accepted
    choicePhase,    \* where the host stands in the choice protocol:
                    \*   "begun"     the last ChoiceBegin succeeded
                    \*   "selecting" a ChoiceSelect was then executed, with one
                    \*               accepted choice or more
                    \*   "chosen"    the host's last call answered it: it was
                    \*               chooseChoice(i) with i the index of one of them
                    \*   "resumed"   the host has made a call since that answer
                    \*   "idle"      otherwise
    translationTable,   \* binary.translationTable
    translationLoaded,  \* binary.translationLoaded
    definitions,        \* binary.definitions
    definitionsCache,   \* Interpreter.#definitions: name to string (Str) or
                        \* undefined (Undefined)
    buffer,         \* the buffer handed to Binary.readFromBuffer
    decoded,        \* what readFromBuffer(buffer) did: Null before the call,
                    \* then [error, bin], error "" when bin was returned
    reader,         \* a BinaryReader of buffer: its pos, and of its last
                    \* read the method, what it returned and whether it threw
    lastDefinition, \* what the last call returned when it was a
                    \* getDefinition(name) that returned; Cut otherwise
    funcs,          \* FunctionHandler.#funcs: the object's own properties
    lastInvoke      \* the last call of a method of the FunctionHandler: for
                    \* invoke, the function called ("none" when none was),
                    \* what it returned and the message of the error thrown
                    \* ("" when none was)

interpreter ==
    << instructionPointer, stack, saveRegister, localVarStore, callStack,
       globalVariableStore, flags, choices, chooseOptions,
       inChoice, selectChoice, runningText, paused, sceneCompleted,
       currentScene, currentText >>

history ==
    << lastCall, lastIndex, lastThrown, lastError, lastCallbacks, lastInvoked, lastOpcode, lastAddress,
       pauseCause, pauseAddress, shown, accepted, choicePhase >>

handler == << funcs, lastInvoke >>

translations ==
    << translationTable, translationLoaded, definitions, definitionsCache, lastDefinition >>

decoder == << buffer, decoded, reader >>

vars == << interpreter, history, handler, translations, decoder >>

\* new BinaryReader(buf): pos is startPos || 0
NewReader == [pos |-> 0, read |-> "new", out |-> Null, thrown |-> FALSE]

\* the interpreter's fields as a record, at the start of a call
State ==
    [ instructionPointer |-> instructionPointer, stack |-> stack,
      saveRegister |-> saveRegister, localVarStore |-> localVarStore,
      callStack |-> callStack, globalVariableStore |-> globalVariableStore,
      flags |-> flags, choices |-> choices, chooseOptions |-> chooseOptions,
      inChoice |-> inChoice, selectChoice |-> selectChoice,
      runningText |-> runningText, paused |-> paused,
      sceneCompleted |-> sceneCompleted, currentScene |-> currentScene,
      currentText |-> currentText,
      translationTable |-> translationTable,
      translationLoaded |-> translationLoaded,
      definitionsCache |-> definitionsCache,
      thrown |-> FALSE, error |-> "", cut |-> FALSE, callbacks |-> 0, invoked |-> <<>>,
      returned |-> Cut ]

\* the call leaves the interpreter as s
Becomes(s) ==
    /\ instructionPointer' = s.instructionPointer
    /\ stack' = s.stack
    /\ saveRegister' = s.saveRegister
    /\ localVarStore' = s.localVarStore
    /\ callStack' = s.callStack
    /\ globalVariableStore' = s.globalVariableStore
    /\ flags' = s.flags
    /\ choices' = s.choices
    /\ chooseOptions' = s.chooseOptions
    /\ inChoice' = s.inChoice
    /\ selectChoice' = s.selectChoice
    /\ runningText' = s.runningText
    /\ paused' = s.paused
    /\ sceneCompleted' = s.sceneCompleted
    /\ currentScene' = s.currentScene
    /\ currentText' = s.currentText
    /\ lastThrown' = s.thrown
    /\ lastError' = s.error
    /\ lastCallbacks' = s.callbacks
    /\ lastInvoked' = s.invoked
    /\ translationTable' = s.translationTable
    /\ translationLoaded' = s.translationLoaded
    /\ definitionsCache' = s.definitionsCache
    /\ lastDefinition' = s.returned
    /\ UNCHANGED << definitions, handler, decoder >>

\* what lastInvoke records of a call of the FunctionHandler that called no
\* function and threw nothing
NoInvoke(op, name) ==
    [op |-> op, name |-> name, args |-> << >>, called |-> "none",
     result |-> Undefined, thrown |-> ""]

\* new Interpreter(binary, functionHandler): the fields but the operand stack
\* and the binary's
InitFields ==
    /\ instructionPointer = 0
    /\ saveRegister = Null
    /\ localVarStore = NewStore
    /\ callStack = <<>>
    /\ globalVariableStore = EmptyMap
    /\ flags = EmptyMap
    /\ choices = <<>>
    /\ chooseOptions = <<>>
    /\ inChoice = FALSE
    /\ selectChoice = FALSE
    /\ runningText = FALSE
    /\ paused = TRUE
    /\ sceneCompleted = FALSE
    /\ currentScene = Null
    /\ currentText = Null
    /\ lastCall = "new"
    /\ lastThrown = FALSE
    /\ lastError = ""
    /\ lastCallbacks = 0
    /\ lastInvoked = <<>>
    /\ lastOpcode = "none"
    /\ lastAddress = 0
    /\ pauseCause = "none"
    /\ pauseAddress = 0
    /\ shown = <<>>
    /\ accepted = <<>>
    /\ choicePhase = "idle"
    /\ lastIndex = 0
    /\ funcs = EmptyMap
    /\ lastInvoke = NoInvoke("new", "")

\* a binary that carries its translation, and no definition
InitBinary ==
    /\ translationTable = internalTranslation
    /\ translationLoaded = TRUE
    /\ definitions = << >>
    /\ definitionsCache = EmptyMap
    /\ lastDefinition = Cut
    /\ buffer = << >>
    /\ decoded = Null
    /\ reader = NewReader

\* new Interpreter(binary, functionHandler)
Init ==
    /\ stack = <<>>
    /\ InitFields
    /\ InitBinary

(***************************************************************************)
(* The FunctionHandler.  #funcs is a plain object: reading #funcs[name]    *)
(* finds the object's own property, and otherwise the property that        *)
(* Object.prototype has under that name.                                   *)
(***************************************************************************)

\* the names the host uses, one of them a method of Object.prototype
HandlerNames == {"char", "getPlayerName", "toString"}

\* the functions the host registers
HostFunctions == {"first", "count"}

\* func(args): "first" returns its first argument, "count" their number;
\* Object.prototype.toString, called on #funcs, returns "[object Object]"
Apply(func, args) ==
    CASE func = "first" -> IF Len(args) > 0 THEN args[1] ELSE Undefined
      [] func = "count" -> Num(Len(args))
      [] func = "Object.prototype.toString" -> Str("[object Object]")

\* this.#funcs[name]; "none" stands for undefined.  Of HandlerNames,
\* "toString" is a property of Object.prototype
Property(object, name) ==
    IF name \in DOMAIN object THEN object[name]
    ELSE IF name = "toString" THEN "Object.prototype." \o name
    ELSE "none"

\* FunctionHandler.invoke
invoke(name, args) ==
    LET func == Property(funcs, name)
    IN /\ lastInvoke' =
            IF func # "none"
            THEN [op |-> "invoke", name |-> name, args |-> args, called |-> func,
                  result |-> Apply(func, args), thrown |-> ""]
            ELSE [op |-> "invoke", name |-> name, args |-> args, called |-> "none",
                  result |-> Undefined, thrown |-> "Invalid function."]
       /\ UNCHANGED << funcs, interpreter, history, translations, decoder >>

\* FunctionHandler.registerFunction
registerFunction(name, func) ==
    /\ funcs' = Put(funcs, name, func)
    /\ lastInvoke' = NoInvoke("registerFunction", name)
    /\ UNCHANGED << interpreter, history, translations, decoder >>

\* FunctionHandler.unregisterFunction
unregisterFunction(name) ==
    /\ funcs' = Remove(funcs, name)
    /\ lastInvoke' = NoInvoke("unregisterFunction", name)
    /\ UNCHANGED << interpreter, history, translations, decoder >>

\* FunctionHandler.clear
clear ==
    /\ funcs' = EmptyMap
    /\ lastInvoke' = NoInvoke("clear", "")
    /\ UNCHANGED << interpreter, history, translations, decoder >>

\* a call that leaves the interpreter as s and did not pause it keeps the
\* record of the pause while s is paused
StillPaused(s) ==
    IF s.paused
    THEN UNCHANGED << pauseCause, pauseAddress >>
    ELSE pauseCause' = "none" /\ pauseAddress' = 0

\* the choices a ChoiceAdd or ChoiceAddTruthy at the instruction pointer is
\* to add: its text and target, when the chance callback accepts its chance
AcceptedBy(ins, rnd) ==
    LET truthy == ins.op = "ChoiceAddTruthy"
        chance == Top(stack)
        text == Top(Rest(stack))
        condition == Top(Rest(Rest(stack)))
        after == instructionPointer + 1 + OperandWidth(ins.op)
    IN IF /\ ins.op \in {"ChoiceAdd", "ChoiceAddTruthy"}
          /\ inChoice
          /\ IsNumber(chance) /\ IsString(text)
          /\ truthy => Truthy(condition)
          /\ ChanceCallback(chance, rnd)
       THEN << [address |-> after + ins.arg1, text |-> text.v] >>
       ELSE << >>

\* the values Math.random() may return in runScene(sceneName): runScene runs
\* bytecode, and with it the chance callbacks, only for a scene that has flag
\* initializers
RunSceneDraws(sceneName) ==
    IF \E i \in DOMAIN scenes : /\ stringTable[scenes[i].symbol] = sceneName
                                /\ Len(scenes[i].instructionIndices) > 1
    THEN 0..(RandomScale - 1)
    ELSE {0}

\* the host calls runScene(sceneName)
HostRunScene(sceneName) ==
    \E rnd \in RunSceneDraws(sceneName) :
        LET s == RunScene(State, sceneName, rnd)
        IN /\ ~s.cut
           /\ Becomes(s)
           /\ lastCall' = "runScene"
           /\ lastIndex' = 0
           /\ lastOpcode' = "none"
           /\ choicePhase' = IF choicePhase \in {"chosen", "resumed"} THEN "resumed"
                              ELSE IF s.thrown THEN choicePhase
                              ELSE "idle"
           /\ shown' = IF s.thrown THEN shown ELSE <<>>
           /\ accepted' = IF s.thrown THEN accepted ELSE <<>>
           /\ lastAddress' = 0
           /\ StillPaused(s)

\* the values Math.random() may return in an update() that starts at ip: the
\* default chance callbacks are the only code that calls it, and only the
\* opcodes below call them (Call through the flag initializers it runs)
RandomDraws(ip) ==
    IF Fetch(ip).op \in {"ChoiceAdd", "ChoiceAddTruthy", "ChooseAdd",
                         "ChooseAddTruthy", "ChooseSelect", "Call"}
    THEN 0..(RandomScale - 1)
    ELSE {0}

\* the host calls update()
HostUpdate ==
    \E rnd \in RandomDraws(instructionPointer) :
        LET s == Update(State, rnd)
            ins == Fetch(instructionPointer)
            pauses == ~paused /\ s.paused
        IN /\ ~s.cut
           /\ s.instructionPointer <= CodeSize
           /\ Becomes(s)
           /\ lastCall' = "update"
           /\ lastIndex' = 0
           /\ choicePhase' =
                IF ~paused /\ ins.op = "ChoiceBegin"
                THEN IF s.thrown THEN "idle" ELSE "begun"
                ELSE IF /\ ~paused /\ ins.op = "ChoiceSelect"
                        /\ choicePhase = "begun" /\ accepted # <<>>
                THEN "selecting"
                ELSE IF choicePhase = "chosen" THEN "resumed"
                ELSE choicePhase
           /\ lastOpcode' = IF paused THEN "none" ELSE ins.op
           /\ lastAddress' = IF paused THEN 0 ELSE instructionPointer
           /\ IF pauses
              THEN pauseCause' = ins.op /\ pauseAddress' = instructionPointer
              ELSE StillPaused(s)
           /\ shown' = IF pauses /\ ins.op = "TextRun" /\ Len(shown) < MaxShown
                       THEN Append(shown, s.currentText.v)
                       ELSE shown
           /\ accepted' = IF paused THEN accepted
                          ELSE IF ins.op = "ChoiceBegin" THEN <<>>
                          ELSE accepted \o AcceptedBy(ins, rnd)

\* the host calls resume()
HostResume ==
    /\ Becomes(Resume(State))
    /\ lastCall' = "resume"
    /\ lastIndex' = 0
    /\ choicePhase' = IF choicePhase = "chosen" THEN "resumed" ELSE choicePhase
    /\ lastOpcode' = "none"
    /\ lastAddress' = 0
    /\ StillPaused(Resume(State))
    /\ UNCHANGED << shown, accepted >>

\* the host calls chooseChoice(idx)
HostChooseChoice(idx) ==
    /\ Becomes(ChooseChoice(State, idx))
    /\ lastCall' = "chooseChoice"
    /\ lastIndex' = idx
    /\ choicePhase' = IF choicePhase = "selecting" /\ idx \in 0..(Len(accepted) - 1)
                       THEN "chosen"
                       ELSE IF choicePhase = "chosen" THEN "resumed"
                       ELSE choicePhase
    /\ lastOpcode' = "none"
    /\ lastAddress' = 0
    /\ StillPaused(ChooseChoice(State, idx))
    /\ UNCHANGED << shown, accepted >>

Next ==
    \/ \E sceneName \in SceneNames : HostRunScene(sceneName)
    \/ HostUpdate
    \/ HostResume
    \/ \E idx \in ChoiceIndexes : HostChooseChoice(idx)

Spec == Init /\ [][Next]_vars

\* the names the host passes to runScene when it runs the scenes that call
\* functions
CallSceneNames == {"deep", "talk"}

\* a host that runs the scenes that call functions
NextCalls ==
    \/ \E sceneName \in CallSceneNames : HostRunScene(sceneName)
    \/ HostUpdate
    \/ HostResume

SpecCalls == Init /\ [][NextCalls]_vars

\* the flags and the values the host passes to setFlag
FlagNames == {"flagA", "flagB"}
FlagValues == {Num(0), Num(5), Str("")}

\* the host calls setFlag(flag, value)
HostSetFlag(flag, value) ==
    /\ Becomes([State EXCEPT !.flags = Put(@, flag, value)])
    /\ lastCall' = "setFlag"
    /\ lastIndex' = 0
    /\ lastOpcode' = "none"
    /\ lastAddress' = 0
    /\ choicePhase' = IF choicePhase = "chosen" THEN "resumed" ELSE choicePhase
    /\ UNCHANGED << pauseCause, pauseAddress, shown, accepted >>

\* a host that sets flags and runs the scene that declares a flag and calls
\* the function that declares another
NextFlags ==
    \/ \E flag \in FlagNames, value \in FlagValues : HostSetFlag(flag, value)
    \/ HostRunScene("talk")
    \/ HostUpdate
    \/ HostResume

SpecFlags == Init /\ [][NextFlags]_vars

\* a host that runs the scene that calls the functions of the FunctionHandler
NextExternal ==
    \/ HostRunScene("ext")
    \/ HostUpdate
    \/ HostResume

SpecExternal == Init /\ [][NextExternal]_vars

\* a host that uses a FunctionHandler of its own
NextHandler ==
    \/ \E name \in HandlerNames, func \in HostFunctions : registerFunction(name, func)
    \/ \E name \in HandlerNames : unregisterFunction(name)
    \/ clear
    \/ \E name \in HandlerNames, args \in { << >>, << Num(7) >>, << Num(7), Str("a") >> } :
          invoke(name, args)

SpecHandler == Init /\ [][NextHandler]_vars

(***************************************************************************)
(* A binary with definitions and without translation, and a host that      *)
(* loads translation files and reads the definitions.                      *)
(***************************************************************************)
TranslationFiles ==
    { << "# public", "Greeting ${0}", "", "@info", "${0}", "  ", "Third" >>,
      << "Hi ${0}", "#x", "Two ${0}" >> }

DefinitionNames ==
    {"info.name", "info.title", "info.line", "info.greeting", "info.empty", "nosuch"}

InitDefinitions ==
    /\ stack = <<>>
    /\ InitFields
    /\ translationTable = << >>
    /\ translationLoaded = FALSE
    /\ definitions = BinaryDefinitions
    /\ definitionsCache = EmptyMap
    /\ lastDefinition = Cut
    /\ buffer = << >>
    /\ decoded = Null
    /\ reader = NewReader

\* the host calls loadTranslationFile(path)
HostLoadTranslationFile(fileContents) ==
    /\ Becomes(LoadTranslationFile(State, fileContents, definitions, 0))
    /\ lastCall' = "loadTranslationFile"
    /\ lastIndex' = 0
    /\ lastOpcode' = "none"
    /\ lastAddress' = 0
    /\ choicePhase' = IF choicePhase = "chosen" THEN "resumed" ELSE choicePhase
    /\ UNCHANGED << pauseCause, pauseAddress, shown, accepted >>

\* the host calls getDefinition(name)
HostGetDefinition(name) ==
    /\ Becomes(GetDefinitionNamed(State, definitions, name, 0))
    /\ lastCall' = "getDefinition"
    /\ lastIndex' = 0
    /\ lastOpcode' = "none"
    /\ lastAddress' = 0
    /\ choicePhase' = IF choicePhase = "chosen" THEN "resumed" ELSE choicePhase
    /\ UNCHANGED << pauseCause, pauseAddress, shown, accepted >>

NextDefinitions ==
    \/ \E fileContents \in TranslationFiles : HostLoadTranslationFile(fileContents)
    \/ \E name \in DefinitionNames : HostGetDefinition(name)
    \/ HostRunScene("odd")
    \/ HostUpdate

SpecDefinitions == InitDefinitions /\ [][NextDefinitions]_vars

(***************************************************************************)
(* One update() of an interpreter that is not paused, in the middle of a   *)
(* scene: operands on the stack, locals in the store, frames on the call   *)
(* stack and options recorded, and at the instruction pointer one of the   *)
(* instructions below.                                                     *)
(***************************************************************************)
MaxStepStack == 2
MaxLocal == 3

StepValues == { Num(0), Num(1), Str("a") }

StepStacks == UNION { [1..n -> StepValues] : n \in 0..MaxStepStack }

\* a new store, a store with one local, and the store of a frame with one
\* flag ("flagB", as function "greet" declares it) and one local
StepStores ==
    { NewStore,
      StoreAdd(NewStore, Num(5)),
      StoreAdd([NewStore EXCEPT !.flagMap = Put(EmptyMap, 0, "flagB")], Num(5)) }

\* no frame, the frame of a Call in scene "deep" (at 182), and under it the
\* frame of the Call in function "greet" (at 119)
StepCallStacks ==
    LET deep == [id |-> 191, stack |-> << Num(3) >>, variable |-> StoreAdd(NewStore, Num(9))]
        greet == [id |-> 128, stack |-> << >>, variable |-> StoreAdd(NewStore, Num(8))]
    IN { << >>, << deep >>, << deep, greet >> }

StepOptions ==
    LET first == [value |-> Num(1), pointer |-> 65]
        second == [value |-> Num(1), pointer |-> 72]
    IN { << >>, << first >>, << first, second >> }

StepInstructions ==
    { I1("ChooseAdd", 8), I0("ChooseSelect"), I1("ChoiceAdd", 8), I0("ChoiceSelect"),
      I0("ChoiceBegin"), I1("ChoiceAddTruthy", 8),
      I1("JumpTruthy", 8), I1("JumpFalsey", 8), I0("Exit"), I0("Return") }
      \cup { I1("SetVarLocal", i) : i \in 0..MaxLocal }
      \cup { I1("PushVarLocal", i) : i \in 0..MaxLocal }
      \cup { I2("Call", id, argc) : id \in DOMAIN functions, argc \in 0..MaxStepStack }
      \cup { I1("MakeArray", n) : n \in 0..MaxStepStack }

\* the fields of an interpreter in the middle of a scene that the
\* specifications of one update() do not draw
InitRunning ==
    /\ instructionPointer = 0
    /\ saveRegister = Null
    /\ globalVariableStore = EmptyMap
    /\ choices = <<>>
    /\ selectChoice = FALSE
    /\ runningText = FALSE
    /\ paused = FALSE
    /\ sceneCompleted = FALSE
    /\ currentScene = Str("deep")
    /\ currentText = Null
    /\ lastCall = "new"
    /\ lastThrown = FALSE
    /\ lastError = ""
    /\ lastCallbacks = 0
    /\ lastInvoked = <<>>
    /\ lastOpcode = "none"
    /\ lastAddress = 0
    /\ pauseCause = "none"
    /\ pauseAddress = 0
    /\ shown = <<>>
    /\ accepted = <<>>
    /\ choicePhase = "idle"
    /\ lastIndex = 0
    /\ funcs = EmptyMap
    /\ lastInvoke = NoInvoke("new", "")
    /\ InitBinary

InitStep ==
    /\ InitRunning
    /\ stack \in StepStacks
    /\ localVarStore \in StepStores
    /\ callStack \in StepCallStacks
    /\ flags \in { EmptyMap, Put(EmptyMap, "flagB", Num(2)) }
    /\ HasKey(localVarStore.flagMap, 0) => HasKey(flags, "flagB")
    /\ chooseOptions \in StepOptions
    /\ inChoice \in BOOLEAN
    \* a choice or a choose is drawn at the top level of a scene without locals
    /\ (inChoice \/ chooseOptions # <<>>) => (callStack = <<>> /\ localVarStore = NewStore)
    /\ inChoice => chooseOptions = <<>>

\* update() where the bytes at the instruction pointer are the instruction ins
UpdateAt(s, ins, rnd) ==
    IF s.paused THEN s
    ELSE Execute([s EXCEPT !.instructionPointer = @ + 1 + OperandWidth(ins.op)], ins, rnd)

\* the host calls update(), once
Step(ins, rnd) ==
    LET s == UpdateAt(State, ins, rnd)
    IN /\ lastCall = "new"
       /\ ~s.cut
       /\ Becomes(s)
       /\ lastCall' = "update"
       /\ lastOpcode' = ins.op
       /\ lastAddress' = instructionPointer
       /\ UNCHANGED << lastIndex, pauseCause, pauseAddress, shown, accepted, choicePhase >>

\* the indexes a weightedChanceCallback of the host returns
Selections == -2..MaxStepStack

\* the host calls update(), once, of an interpreter constructed with a
\* weightedChanceCallback that returns selection, with ChooseSelect at the
\* instruction pointer
StepSelecting(selection) ==
    LET s == IF paused THEN State
             ELSE ChooseSelectOf([State EXCEPT !.instructionPointer = @ + 1], selection)
    IN /\ lastCall = "new"
       /\ Becomes(s)
       /\ lastCall' = "update"
       /\ lastOpcode' = "ChooseSelect"
       /\ lastAddress' = instructionPointer
       /\ UNCHANGED << lastIndex, pauseCause, pauseAddress, shown, accepted, choicePhase >>

NextStep ==
    \/ \E ins \in StepInstructions, rnd \in 0..(RandomScale - 1) : Step(ins, rnd)
    \/ \E selection \in Selections : StepSelecting(selection)

SpecStep == InitStep /\ [][NextStep]_vars

(***************************************************************************)
(* The LocalVariableStore of a running scene, with and without a flag      *)
(* local, and the calls add, set and delete made on it (delete is what     *)
(* FreeLocal calls).                                                       *)
(***************************************************************************)
InitStore ==
    /\ InitRunning
    /\ stack = <<>>
    /\ callStack = <<>>
    /\ chooseOptions = <<>>
    /\ inChoice = FALSE
    /\ \/ localVarStore = NewStore /\ flags = EmptyMap
       \/ /\ localVarStore = [NewStore EXCEPT !.flagMap = Put(EmptyMap, 0, "flagA")]
          /\ flags = Put(EmptyMap, "flagA", Num(1))

\* a call made on the store: nothing else of the interpreter changes
StoreCall(name, index, store, newFlags) ==
    /\ Becomes([State EXCEPT !.localVarStore = store, !.flags = newFlags])
    /\ lastCall' = name
    /\ lastIndex' = index
    /\ lastOpcode' = "none"
    /\ lastAddress' = 0
    /\ UNCHANGED << choicePhase, pauseCause, pauseAddress, shown, accepted >>

\* localVarStore.add(value); lastIndex is the ID it writes
LocalAdd(value) ==
    /\ StoreCount(localVarStore) <= MaxLocal
    /\ StoreCall("add", StoreCount(localVarStore), StoreAdd(localVarStore, value), flags)

\* localVarStore.set(index, value)
LocalSet(index, value) ==
    /\ index \in DOMAIN localVarStore.variables \cup DOMAIN localVarStore.flagMap
    /\ StoreCall("set", index, StoreSetVariables(localVarStore, index, value),
                 StoreSetFlags(localVarStore, flags, index, value))

\* localVarStore.delete(index)
LocalDelete(index) ==
    StoreCall("delete", index, StoreDelete(localVarStore, index), flags)

NextStore ==
    \/ \E value \in StepValues : LocalAdd(value)
    \/ \E index \in 0..MaxLocal, value \in StepValues : LocalSet(index, value)
    \/ \E index \in 0..MaxLocal : LocalDelete(index)

SpecStore == InitStore /\ [][NextStore]_vars

(***************************************************************************)
(* The default weightedChanceCallback, called by one update() that         *)
(* executes ChooseSelect with the options of drawn weights recorded.       *)
(***************************************************************************)
MaxOptions == 4
MaxWeight == 2

\* options of the weights w[0 .. n), option i with the pointer 100 + i
WeightedOptions ==
    UNION { { [i \in 1..n |-> [value |-> Num(w[i]), pointer |-> 99 + i]] :
                w \in [1..n -> 0..MaxWeight] } : n \in 1..MaxOptions }

InitWeights ==
    /\ InitRunning
    /\ stack = <<>>
    /\ localVarStore = NewStore
    /\ callStack = <<>>
    /\ flags = EmptyMap
    /\ chooseOptions \in WeightedOptions
    /\ inChoice = FALSE

NextWeights == \E rnd \in 0..(RandomScale - 1) : Step(I0("ChooseSelect"), rnd)

SpecWeights == InitWeights /\ [][NextWeights]_vars

(***************************************************************************)
(* One update() of an instruction that computes with or tests its          *)
(* operands, for operands of every type.                                   *)
(***************************************************************************)
MaxOperandDepth == 2

\* numbers, undefined, strings and arrays, empty and not
OperandValues ==
    { Undefined, Num(0), Num(1), NaN, Str(""), Str("Yes"), Arr(<< >>), Arr(<< Num(0) >>) }

\* the operands alone, and a condition under the text and the chance of a
\* ChoiceAddTruthy
TypedStacks ==
    UNION { [1..n -> OperandValues] : n \in 0..MaxOperandDepth }
      \cup { << v, Str("Yes"), Num(1) >> : v \in OperandValues }

BinaryOpcodes ==
    { "Add", "Subtract", "Multiply", "Divide", "Modulo", "Power", "BitLeftShift",
      "BitRightShift", "BitAnd", "BitOr", "BitExclusiveOr", "CompareEqual",
      "CompareGreaterThan", "CompareLessThan", "CompareGreaterThanEqual",
      "CompareLessThanEqual", "CompareNotEqual" }

UnaryOpcodes == { "Negate", "BitNegate" }

TestingOpcodes == { "Invert", "JumpTruthy", "JumpFalsey", "ChoiceAddTruthy", "ChooseAddTruthy" }

OperandInstructions ==
    { I1(op, IF op \in OneInt32 THEN 8 ELSE 0) :
        op \in BinaryOpcodes \cup UnaryOpcodes \cup TestingOpcodes }

InitOperands ==
    /\ InitRunning
    /\ stack \in TypedStacks
    /\ localVarStore = NewStore
    /\ callStack = <<>>
    /\ flags = EmptyMap
    /\ chooseOptions = <<>>
    /\ inChoice \in BOOLEAN

NextOperands == \E ins \in OperandInstructions, rnd \in 0..(RandomScale - 1) : Step(ins, rnd)

SpecOperands == InitOperands /\ [][NextOperands]_vars

(***************************************************************************)
(* Binary.readFromBuffer, applied to buffers that encode small binaries,   *)
(* whole or truncated, with good and bad signatures and versions.  The     *)
(* buffers are not compressed and hold no UInt32 of 2^31 or more.          *)
(***************************************************************************)

\* String.fromCharCode, of the bytes the buffers hold in their strings
FromCharCode(byte) ==
    CASE byte = 68 -> "D" [] byte = 78 -> "N" [] byte = 88 -> "X" [] byte = 89 -> "Y"
      [] byte = 97 -> "a" [] byte = 98 -> "b" [] OTHER -> "?"

\* BinaryReader.readUInt8, readUInt16, readUInt32 and readInt32 (signed), of
\* the n bytes at pos, little-endian; a read outside the buffer throws a
\* RangeError: pos is -1 from then on
Read(buf, pos, n, signed) ==
    IF pos < 0 \/ pos + n > Len(buf) THEN [pos |-> -1, val |-> 0]
    ELSE LET B(i) == IF i > n THEN 0
                     ELSE IF i = n /\ signed /\ buf[pos + i] >= 128 THEN buf[pos + i] - 256
                     ELSE buf[pos + i]
         IN [pos |-> pos + n,
             val |-> B(1) + 256 * B(2) + 65536 * B(3) + 16777216 * B(4)]

RECURSIVE ReadString(_, _, _)
\* BinaryReader.readString, str read so far
ReadString(buf, pos, str) ==
    LET r == Read(buf, pos, 1, FALSE)
    IN IF r.pos < 0 \/ r.val = 0 THEN [pos |-> r.pos, val |-> str]
       ELSE ReadString(buf, r.pos, str \o FromCharCode(r.val))

RECURSIVE ReadMany(_, _, _, _, _)
\* one entry of Parser.parseSceneMetadata and of parseFunctionMetadata
\* ("entry"), one of parseDefinitionMetadata ("definition"), a readString
\* ("string"), a readUInt8 ("byte"), a readInt32 or a readUInt32
ReadItem(kind, buf, pos) ==
    CASE kind = "entry" ->
           LET symbol == Read(buf, pos, 4, FALSE)
               indicesSize == Read(buf, symbol.pos, 2, FALSE)
               indices == ReadMany(buf, indicesSize.pos, indicesSize.val, << >>, "int32")
           IN [pos |-> indices.pos,
               val |-> [symbol |-> symbol.val, instructionIndices |-> indices.val]]
      [] kind = "definition" ->
           LET symbol == Read(buf, pos, 4, FALSE)
               reference == Read(buf, symbol.pos, 4, FALSE)
               instructionIndex == Read(buf, reference.pos, 4, TRUE)
           IN [pos |-> instructionIndex.pos,
               val |-> [symbol |-> symbol.val, reference |-> reference.val,
                        instructionIndex |-> instructionIndex.val]]
      [] kind = "string" -> ReadString(buf, pos, "")
      [] kind = "byte" -> Read(buf, pos, 1, FALSE)
      [] kind = "int32" -> Read(buf, pos, 4, TRUE)
      [] OTHER -> Read(buf, pos, 4, FALSE)

\* for (let i = 0; i < size; i++) { out.push(...) }
ReadMany(buf, pos, size, out, kind) ==
    IF size <= 0 \/ pos < 0 THEN [pos |-> pos, val |-> out]
    ELSE LET r == ReadItem(kind, buf, pos)
         IN ReadMany(buf, r.pos, size - 1, Append(out, r.val), kind)

\* const size = bfr.readUInt32(); and the loop over size items
ReadList(buf, pos, kind) ==
    LET size == Read(buf, pos, 4, FALSE)
    IN ReadMany(buf, size.pos, size.val, << >>, kind)

\* a readFromBuffer that accepts every version
AnyVersion(version) == TRUE

\* the versions readFromBuffer accepts
SupportedVersion(version) == ~(version < 3 \/ version > 4)

\* the sections of the binary, read from pos on
ReadSections(buf, pos, version, internalTranslationFile) ==
    LET Skip(p) == IF version >= 4 THEN Read(buf, p, 4, FALSE).pos ELSE p
        scenes_ == ReadList(buf, Skip(pos), "entry")
        functions_ == ReadList(buf, Skip(scenes_.pos), "entry")
        definitions_ == ReadList(buf, Skip(functions_.pos), "definition")
        bytecodeSize == Read(buf, definitions_.pos, 4, FALSE)
        instructions_ == ReadMany(buf, bytecodeSize.pos, bytecodeSize.val, << >>, "byte")
        stringTable_ == ReadList(buf, Skip(instructions_.pos), "string")
        translationTable_ ==
            IF internalTranslationFile
            THEN ReadList(buf, Skip(stringTable_.pos), "string")
            ELSE [pos |-> stringTable_.pos, val |-> << >>]
        externalFunctionList == ReadList(buf, Skip(translationTable_.pos), "uint32")
    IN IF externalFunctionList.pos < 0 THEN [error |-> "RangeError", bin |-> Null]
       ELSE [error |-> "",
             bin |-> [translationLoaded |-> internalTranslationFile,
                      stringTable |-> stringTable_.val,
                      translationTable |-> translationTable_.val,
                      instructions |-> instructions_.val,
                      externalFunctionList |-> externalFunctionList.val,
                      scenes |-> scenes_.val, functions |-> functions_.val,
                      definitions |-> definitions_.val]]

\* Binary.readFromBuffer; zlib.inflateSync is not modelled (Cut)
ReadFromBuffer(buf) ==
    LET c1 == Read(buf, 0, 1, FALSE)
        c2 == Read(buf, c1.pos, 1, FALSE)
        c3 == Read(buf, c2.pos, 1, FALSE)
        signature == FromCharCode(c1.val) \o FromCharCode(c2.val) \o FromCharCode(c3.val)
        version == Read(buf, c3.pos, 1, FALSE)
        flagData == Read(buf, version.pos, 1, FALSE)
        size == Read(buf, flagData.pos, 4, FALSE)
    IN IF c3.pos < 0 THEN [error |-> "RangeError", bin |-> Null]
       ELSE IF "DNX" # signature THEN [error |-> "Invalid signature.", bin |-> Null]
       ELSE IF version.pos < 0 THEN [error |-> "RangeError", bin |-> Null]
       ELSE IF ~SupportedVersion(version.val)
            THEN [error |-> "Binary not for this version of Diannex.", bin |-> Null]
       ELSE IF size.pos < 0 THEN [error |-> "RangeError", bin |-> Null]
       ELSE IF flagData.val % 2 = 1 THEN Cut
       ELSE ReadSections(buf, size.pos, version.val, (flagData.val \div 2) % 2 = 1)

RECURSIVE Flatten(_)
Flatten(seqs) == IF seqs = << >> THEN << >> ELSE Head(seqs) \o Flatten(Tail(seqs))

\* the bytes of a binary with the given signature, version and flags, a
\* scene, function and definition for each symbol given, no bytecode, the
\* first strings of "a", "b" as string table and "b" as translation
Encoded(signature, version, flagData, sceneSymbols, functionSymbols, definitionSymbols, strings) ==
    LET U32(n) == << n % 256, n \div 256, 0, 0 >>
        Gap == IF version >= 4 THEN U32(0) ELSE << >>
        Entry(symbol) == U32(symbol) \o << 1, 0 >> \o U32(0)
        Def(symbol) == U32(symbol) \o U32(0) \o << 255, 255, 255, 255 >>
        Entries(symbols) ==
            U32(Len(symbols)) \o Flatten([i \in 1..Len(symbols) |-> Entry(symbols[i])])
    IN signature \o << version, flagData >> \o U32(0)
         \o Gap \o Entries(sceneSymbols)
         \o Gap \o Entries(functionSymbols)
         \o Gap \o U32(Len(definitionSymbols))
             \o Flatten([i \in 1..Len(definitionSymbols) |-> Def(definitionSymbols[i])])
         \o U32(0)
         \o Gap \o U32(strings)
             \o Flatten([i \in 1..strings |-> << IF i % 2 = 1 THEN 97 ELSE 98, 0 >>])
         \o (IF (flagData \div 2) % 2 = 1 THEN Gap \o U32(1) \o << 98, 0 >> ELSE << >>)
         \o Gap \o U32(0)

MaxStrings == 2

Buffers ==
    { SubSeq(whole, 1, Len(whole) - cut) :
        whole \in { Encoded(signature, version, flagData, sc, fn, df, strings) :
                      signature \in { << 68, 78, 88 >>, << 68, 78, 89 >> },
                      version \in { 2, 3, 4, 5 },
                      flagData \in { 0, 2 },
                      sc \in { << >>, << 0 >>, << 0, 2 >> },
                      fn \in { << >>, << 1 >> },
                      df \in { << >>, << 1 >>, << 3 >> },
                      strings \in 0..MaxStrings },
        cut \in { 0, 1, 20 } }

InitDecoder ==
    /\ stack = <<>>
    /\ InitFields
    /\ translationTable = internalTranslation
    /\ translationLoaded = TRUE
    /\ definitions = << >>
    /\ definitionsCache = EmptyMap
    /\ lastDefinition = Cut
    /\ buffer \in Buffers
    /\ decoded = Null
    /\ reader = NewReader

\* the host calls Binary.readFromBuffer(buffer)
HostReadFromBuffer ==
    /\ decoded = Null
    /\ decoded' = ReadFromBuffer(buffer)
    /\ UNCHANGED << buffer, reader, interpreter, history, handler, translations >>

NextDecoder == HostReadFromBuffer

SpecDecoder == InitDecoder /\ [][NextDecoder]_vars

(***************************************************************************)
(* A BinaryReader (little-endian) on small buffers, and the reads a host   *)
(* makes on it one after the other.                                        *)
(***************************************************************************)
MaxBytes == 10
MaxRead == 3

ReaderBuffers ==
    { [i \in 1..n |-> IF i % k = 0 THEN 0 ELSE IF i % 2 = 0 THEN 97 ELSE 98] :
        n \in 0..MaxBytes, k \in 2..4 }

InitReader ==
    /\ stack = <<>>
    /\ InitFields
    /\ translationTable = internalTranslation
    /\ translationLoaded = TRUE
    /\ definitions = << >>
    /\ definitionsCache = EmptyMap
    /\ lastDefinition = Cut
    /\ buffer \in ReaderBuffers
    /\ decoded = Null
    /\ reader = NewReader

\* a read that returned out with the cursor at pos, or threw (pos < 0)
\* leaving the cursor at kept
Reading(name, pos, out, kept) ==
    /\ reader' = IF pos < 0
                 THEN [pos |-> kept, read |-> name, out |-> Null, thrown |-> TRUE]
                 ELSE [pos |-> pos, read |-> name, out |-> out, thrown |-> FALSE]
    /\ UNCHANGED << buffer, decoded, interpreter, history, handler, translations >>

readUInt8 ==
    LET r == Read(buffer, reader.pos, 1, FALSE)
    IN Reading("readUInt8", r.pos, r.val, reader.pos)

readUInt16 ==
    LET r == Read(buffer, reader.pos, 2, FALSE)
    IN Reading("readUInt16", r.pos, r.val, reader.pos)

readInt32 ==
    LET r == Read(buffer, reader.pos, 4, TRUE)
    IN Reading("readInt32", r.pos, r.val, reader.pos)

readUInt32 ==
    LET r == Read(buffer, reader.pos, 4, FALSE)
    IN Reading("readUInt32", r.pos, r.val, reader.pos)

\* buf.readDoubleLE(pos) decodes the eight bytes at pos, kept here as the
\* bytes themselves; then this.pos += 4
readDouble ==
    IF reader.pos + 8 > Len(buffer)
    THEN Reading("readDouble", -1, Null, reader.pos)
    ELSE Reading("readDouble", reader.pos + 4,
                 SubSeq(buffer, reader.pos + 1, reader.pos + 8), reader.pos)

\* every readUInt8 that returned has moved the cursor before one throws
readString ==
    LET r == ReadString(buffer, reader.pos, "")
    IN Reading("readString", r.pos, r.val, Len(buffer))

readBytes(bytes) ==
    LET r == ReadMany(buffer, reader.pos, bytes, << >>, "byte")
    IN Reading("readBytes", r.pos, r.val, Len(buffer))

RECURSIVE CharsOf(_)
\* out += String.fromCharCode(...) of each byte read
CharsOf(read) == IF read = << >> THEN "" ELSE FromCharCode(Head(read)) \o CharsOf(Tail(read))

readChars(bytes) ==
    LET r == ReadMany(buffer, reader.pos, bytes, << >>, "byte")
    IN Reading("readChars", r.pos, IF r.pos < 0 THEN "" ELSE CharsOf(r.val), Len(buffer))

NextReader ==
    \/ readUInt8
    \/ readUInt16
    \/ readInt32
    \/ readUInt32
    \/ readDouble
    \/ readString
    \/ \E bytes \in 0..MaxRead : readBytes(bytes)
    \/ \E bytes \in 0..MaxRead : readChars(bytes)

SpecReader == InitReader /\ [][NextReader]_vars

(***************************************************************************)
(* interpolate, applied to format strings and operand stacks of a scene    *)
(* that pushed the values of its expressions.                              *)
(***************************************************************************)
MaxExprCount == 2
MaxValueLength == 5
MaxOperands == 2

Formats ==
    { "Hello, ${0}", "${0}${1}", "${0} and ${1}", "${1}-${0}", "\\${0}", "plain",
      "${x}!" }

OperandStacks ==
    UNION { [1..n -> { Str("world"), Str("a"), Str(""), Num(12) }] : n \in 0..MaxExprCount }

InitInterpolate ==
    /\ stack \in OperandStacks
    /\ InitFields
    /\ InitBinary

\* Opcode.PushInterpolatedString and Opcode.PushBinaryInterpolatedString, of
\* a table entry format and the argument exprCount
PushInterpolated(format, exprCount) ==
    /\ Len(stack) >= exprCount
    /\ Len(stack) - exprCount < MaxOperands
    /\ \A i \in 1..exprCount :
          Len(Concatenated(PopValues(stack, exprCount)[i])) <= MaxValueLength
    /\ stack' = ExecInterpolate(State, format, exprCount).stack
    /\ lastCall' = "interpolate"
    /\ UNCHANGED << instructionPointer, saveRegister, localVarStore, callStack,
                    globalVariableStore, flags, choices, chooseOptions,
                    inChoice, selectChoice, runningText, paused, sceneCompleted,
                    currentScene, currentText >>
    /\ UNCHANGED << lastIndex, lastThrown, lastError, lastCallbacks, lastInvoked, lastOpcode,
                    lastAddress, pauseCause, pauseAddress, shown, accepted,
                    choicePhase >>
    /\ UNCHANGED << handler, translations, decoder >>

NextInterpolate ==
    \E format \in Formats, exprCount \in 0..MaxExprCount :
        PushInterpolated(format, exprCount)

SpecInterpolate == InitInterpolate /\ [][NextInterpolate]_vars

\* every instruction pointer reached is the start of an instruction, -1 or
\* the end of the buffer
Aligned == Fetch(instructionPointer).op # "misaligned"

(***************************************************************************)
(* The claims.                                                             *)
(***************************************************************************)

\* C1: after a successful update(), if paused is false then runningText,
\* selectChoice and sceneCompleted are all false.
C1_UnpausedMeansRunning ==
    (lastCall = "update" /\ ~lastThrown /\ ~paused)
        => (~runningText /\ ~selectChoice /\ ~sceneCompleted)

\* C2: an update() that turns paused from false to true executed TextRun
\* with a string on top of the stack and set runningText, or ChoiceSelect and
\* set selectChoice, or Exit with an empty call stack and set sceneCompleted.
C2_SuspensionPoints ==
    [][ (lastCall' = "update" /\ ~paused /\ paused')
          => \/ lastOpcode' = "TextRun" /\ IsString(Top(stack)) /\ runningText'
             \/ lastOpcode' = "ChoiceSelect" /\ selectChoice'
             \/ lastOpcode' = "Exit" /\ callStack = <<>> /\ sceneCompleted'
      ]_vars

\* an update() has just paused the interpreter by an Exit with an empty call
\* stack
C2_Witness ==
    /\ lastCall = "update" /\ lastOpcode = "Exit" /\ ~lastThrown
    /\ paused /\ pauseCause = "Exit" /\ sceneCompleted

\* C3: update() called while paused changes no field of the interpreter,
\* invokes no host callback and does not throw.
C3_UpdateWhilePausedIsNoOp ==
    [][ (lastCall' = "update" /\ paused)
          => (UNCHANGED interpreter /\ lastCallbacks' = 0 /\ ~lastThrown')
      ]_vars

\* update() has just been called while a text was showing
C3_Witness ==
    /\ lastCall = "update" /\ lastOpcode = "none"
    /\ paused /\ runningText /\ pauseCause = "TextRun"

\* C4: an update() that executes TextRun pops one value; if it is a string
\* it becomes currentText and runningText and paused are set; otherwise
\* currentText, runningText and paused are unchanged.  The first pause of
\* scene "intro" (PushString 0; TextRun; ...) shows translationTable[0].
C4_TextRun ==
    [][ /\ (lastCall' = "update" /\ lastOpcode' = "TextRun")
             => /\ ~lastThrown'
                /\ stack' = Rest(stack)
                /\ IF IsString(Top(stack))
                   THEN currentText' = Top(stack) /\ runningText' /\ paused'
                   ELSE UNCHANGED << currentText, runningText, paused >>
        /\ (/\ lastCall' = "update" /\ paused'
            /\ currentScene' = Str("intro") /\ shown' # <<>> /\ Len(shown') = 1)
             => /\ runningText'
                /\ currentText' = Str(translationTable[0])
      ]_vars

\* the first pause of scene "intro"
C4_Witness ==
    /\ lastCall = "update" /\ lastOpcode = "TextRun" /\ paused /\ runningText
    /\ currentScene = Str("intro") /\ shown = << translationTable[0] >>
    /\ currentText = Str(translationTable[0])

\* C5: resume() from a pause caused by TextRun (runningText true,
\* selectChoice false) clears runningText and paused and changes nothing
\* else, so that the next update() decodes the instruction after that
\* TextRun; the texts of scene "intro" surface in the order of its TextRun
\* instructions, one per pause.
C5_ResumeFromText ==
    [][ /\ (/\ lastCall' = "resume"
            /\ paused /\ pauseCause = "TextRun" /\ runningText /\ ~selectChoice)
             => /\ ~lastThrown' /\ ~runningText' /\ ~paused'
                /\ instructionPointer' = pauseAddress + 1
                /\ UNCHANGED << stack, saveRegister, localVarStore, callStack,
                                globalVariableStore, flags, choices, chooseOptions,
                                inChoice, selectChoice, sceneCompleted,
                                currentScene, currentText >>
        /\ (lastCall' = "update" /\ ~paused /\ paused' /\ lastOpcode' = "TextRun")
             => shown' = IF Len(shown) < MaxShown
                         THEN Append(shown, currentText'.v)
                         ELSE shown
        /\ currentScene' = Str("intro")
             => \A k \in 1..Len(shown') :
                    k <= 3 => shown'[k] = translationTable[k - 1]
      ]_vars

\* the third text of scene "intro" is showing, after two resume() calls
C5_Witness ==
    /\ currentScene = Str("intro") /\ paused /\ runningText
    /\ pauseCause = "TextRun" /\ Len(shown) = 3
    /\ currentText = Str(translationTable[2])

\* C6: the update() that executes ChoiceSelect after a ChoiceBegin and n >= 1
\* accepted ChoiceAdd's pauses with selectChoice set and the n choices, in
\* the order they were added; chooseChoice(i) with 0 <= i < n then moves the
\* instruction pointer to the address of the i-th choice and clears
\* selectChoice and paused.
C6_ChoiceSelectOffersChoices ==
    /\ (lastCall = "update" /\ lastOpcode = "ChoiceSelect" /\ choicePhase = "selecting")
         => /\ ~lastThrown /\ paused /\ selectChoice
            /\ Len(choices) = Len(accepted)
            /\ \A i \in 1..Len(accepted) : choices[i] = accepted[i]
    /\ choicePhase = "chosen"
         => /\ ~lastThrown /\ ~selectChoice /\ ~paused
            /\ instructionPointer = accepted[lastIndex + 1].address

\* C7: a ChoiceBegin executed after the host has answered a ChoiceSelect
\* with chooseChoice(i), 0 <= i < n, succeeds and starts with no choices.
C7_ChoiceBeginAfterSelection ==
    [][ (/\ lastCall' = "update" /\ lastOpcode' = "ChoiceBegin"
         /\ choicePhase \in {"chosen", "resumed"})
          => (~lastThrown' /\ inChoice' /\ choices' = <<>>)
      ]_vars

C9_ChooseChoiceOutOfRange ==
    [][ (lastCall' = "chooseChoice" /\ lastIndex' >= Len(choices))
          => /\ lastThrown'
             /\ UNCHANGED << instructionPointer, selectChoice, paused, choices >>
      ]_vars

\* chooseChoice(2) has just thrown, two choices having been offered
C9_Witness ==
    /\ lastCall = "chooseChoice" /\ lastIndex = 2 /\ lastThrown
    /\ lastIndex >= Len(choices)
    /\ choicePhase = "selecting" /\ Len(accepted) = 2

\* C10: a successful runScene leaves the call stack and the operand stack
\* empty, whatever the previous scene was doing.
C10_RunSceneDiscardsStacks ==
    (lastCall = "runScene" /\ ~lastThrown)
        => (callStack = <<>> /\ stack = <<>>)

\* C11: runScene(name) with a name that is not in the string table, or that
\* is in it but is the symbol of no scene, throws and leaves the instruction
\* pointer, paused, currentScene, the operand stack, the local store and the
\* flags unchanged; a runScene that threw has changed none of them.
C11_RunSceneLookupError ==
    [][ /\ \A name \in SceneNames :
             (\A i \in DOMAIN stringTable :
                  stringTable[i] = name
                      => \A k \in DOMAIN scenes : scenes[k].symbol # i)
                 => LET s == RunScene(State, name, 0)
                    IN /\ s.thrown
                       /\ s.instructionPointer = instructionPointer
                       /\ s.paused = paused
                       /\ s.currentScene = currentScene
                       /\ s.stack = stack
                       /\ s.localVarStore = localVarStore
                       /\ s.flags = flags
        /\ (lastCall' = "runScene" /\ lastThrown')
             => UNCHANGED << instructionPointer, paused, currentScene, stack,
                             localVarStore, flags >>
      ]_vars

\* runScene has just thrown while a scene was running with a value on the
\* operand stack
C11_Witness ==
    /\ lastCall = "runScene" /\ lastThrown
    /\ currentScene # Null /\ ~paused /\ stack # <<>>

C13_CallReturnDepth ==
    [][ LET argc == Fetch(instructionPointer).arg2
            frame == callStack[Len(callStack)]
        IN /\ (/\ lastCall' = "update" /\ lastOpcode' = "Call" /\ ~lastThrown'
               /\ Len(stack) >= argc)
                => /\ Len(callStack') = Len(callStack) + 1
                   /\ SubSeq(callStack', 1, Len(callStack)) = callStack
                   /\ callStack'[Len(callStack')].stack
                         = SubSeq(stack, 1, Len(stack) - argc)
                   /\ callStack'[Len(callStack')].id = instructionPointer + 9
           /\ (/\ lastCall' \in {"update", "resume", "chooseChoice"}
               /\ lastOpcode' \notin {"Call", "Return", "Exit"})
                => callStack' = callStack
           /\ (/\ lastCall' = "update" /\ lastOpcode' = "Return"
               /\ callStack # <<>>)
                => /\ ~lastThrown'
                   /\ Len(stack') = Len(frame.stack) + 1
                   /\ SubSeq(stack', 1, Len(frame.stack)) = frame.stack
                   /\ stack'[Len(stack')] = Top(stack)
                   /\ instructionPointer' = frame.id
                   /\ callStack' = SubSeq(callStack, 1, Len(callStack) - 1)
      ]_vars

\* the Return of "greet" has just returned into scene "deep", which called
\* it with two values on the operand stack, one of them the argument
C13_Witness ==
    /\ lastCall = "update" /\ lastOpcode = "Return" /\ ~lastThrown
    /\ instructionPointer = 191 /\ callStack = <<>>
    /\ Len(stack) = 2 /\ stack[1] = Num(3)

\* C14: a runScene or a Call assigns no flag that already has a value,
\* whatever the value is; the flag of the scene "talk" gets its initial
\* value when it has none.
C14_InitializerKeepsFlag ==
    [][ /\ (/\ \/ lastCall' = "runScene"
               \/ lastCall' = "update" /\ lastOpcode' = "Call"
            /\ ~lastThrown')
             => \A name \in FlagNames :
                    HasKey(flags, name) => Lookup(flags', name) = Lookup(flags, name)
        /\ (/\ lastCall' = "runScene" /\ ~lastThrown'
            /\ currentScene' = Str("talk") /\ ~HasKey(flags, "flagA"))
             => Lookup(flags', "flagA") = Num(1)
      ]_vars

C16_InvokeRegistered ==
    lastInvoke.op = "invoke" =>
        IF lastInvoke.name \in DOMAIN funcs
        THEN /\ lastInvoke.called = funcs[lastInvoke.name]
             /\ lastInvoke.result = Apply(funcs[lastInvoke.name], lastInvoke.args)
             /\ lastInvoke.thrown = ""
        ELSE /\ lastInvoke.called = "none"
             /\ lastInvoke.thrown = "Invalid function."

RECURSIVE Replaced(_, _)
\* format with every unescaped ${N}, N a digit that indexes values, replaced
\* by the string form of values[N]; a backslash escapes the character after it
Replaced(format, values) ==
    IF format = "" THEN ""
    ELSE IF Head(format) = "\\"
         THEN SubSeq(format, 1, 2) \o Replaced(SubSeq(format, 3, Len(format)), values)
    ELSE IF /\ Len(format) >= 4
            /\ SubSeq(format, 1, 2) = "${"
            /\ SubSeq(format, 3, 3) \in DigitChars
            /\ SubSeq(format, 4, 4) = "}"
            /\ DigitValue(SubSeq(format, 3, 3)) < Len(values)
         THEN Concatenated(values[DigitValue(SubSeq(format, 3, 3)) + 1])
                 \o Replaced(SubSeq(format, 5, Len(format)), values)
    ELSE Head(format) \o Replaced(Tail(format), values)

\* every unescaped placeholder of format has an index below k
AllBelow(format, k) ==
    Replaced(format, [i \in 1..k |-> Str("")]) = Replaced(format, [i \in 1..10 |-> Str("")])

\* C17: an interpolated-string push with count k pops k values, the first
\* popped being v[0], and pushes the format with every unescaped ${N},
\* 0 <= N < k, replaced by the string form of v[N], wherever the placeholders
\* stand and whatever the lengths of the values.
C17_Interpolate ==
    [][ \A format \in Formats, k \in 0..MaxExprCount :
          (PushInterpolated(format, k) /\ AllBelow(format, k))
            => stack' = Append(SubSeq(stack, 1, Len(stack) - k),
                               Str(Replaced(format, PopValues(stack, k))))
      ]_vars

\* C18: getDefinition of a definition without instructions returns
\* stringTable[reference & 0x7FFFFFFF] when bit 31 of the reference is set,
\* whatever the index, and translationTable[reference] otherwise.
C18_DefinitionReference ==
    [][ \A name \in DefinitionNames :
          \A i \in LookupDefinition(definitions, name) :
            (/\ HostGetDefinition(name) /\ ~lastThrown'
             /\ definitions[i].instructionIndex = -1)
              => lastDefinition' =
                   IF definitions[i].reference >= TopBit
                   THEN TableEntry(stringTable, definitions[i].reference - TopBit)
                   ELSE TableEntry(translationTable, definitions[i].reference)
      ]_vars

\* C19: once the definitions are resolved, getDefinition(name) returns the
\* cached string, executes no instruction and leaves the interpreter as it was.
C19_CachedDefinition ==
    [][ \A name \in DefinitionNames :
          (/\ HostGetDefinition(name)
           /\ translationLoaded /\ name \in DOMAIN definitionsCache)
            => /\ lastDefinition' = definitionsCache[name]
               /\ ~lastThrown' /\ lastCallbacks' = 0
               /\ UNCHANGED interpreter
               /\ UNCHANGED << translationTable, definitionsCache >>
      ]_vars

\* C20: loadTranslationFile makes translationTable the lines of the file that
\* neither start with # or @ nor are blank, in the file's order from index 0,
\* sets translationLoaded, and when it returns every definition is cached
\* again, a definition that is a line of the translation as the new line.
C20_LoadTranslationFile ==
    [][ \A fileContents \in TranslationFiles :
          HostLoadTranslationFile(fileContents)
            => LET kept == SelectSeq(fileContents, KeptLine)
               IN /\ translationTable' = [i \in 0..(Len(kept) - 1) |-> kept[i + 1]]
                  /\ translationLoaded'
                  /\ ~lastThrown' =>
                       \A i \in DOMAIN definitions :
                         LET name == stringTable[definitions[i].symbol]
                             ref == definitions[i].reference
                         IN /\ name \in DOMAIN definitionsCache'
                            /\ (definitions[i].instructionIndex = -1 /\ ref < TopBit)
                                 => definitionsCache'[name] =
                                      IF ref < Len(kept) THEN Str(kept[ref + 1])
                                      ELSE Undefined
      ]_vars

\* the shorter file has just been loaded: it has no third line for "info.line"
C20_Witness ==
    /\ lastCall = "loadTranslationFile" /\ ~lastThrown
    /\ translationTable = ZeroBased(<< "Hi ${0}", "Two ${0}" >>)
    /\ definitionsCache["info.line"] = Undefined
    /\ definitionsCache["info.greeting"] = Str("Hi 7")

\* C21: readFromBuffer of a buffer whose first three bytes are not "DNX"
\* throws "Invalid signature.", whatever the version byte; with the signature
\* and a version byte that is not supported it throws "Binary not for this
\* version of Diannex."; it returns no Binary in either case.
C21_SignatureThenVersion ==
    (decoded # Null /\ Len(buffer) >= 3) =>
        IF SubSeq(buffer, 1, 3) # << 68, 78, 88 >>
        THEN decoded = [error |-> "Invalid signature.", bin |-> Null]
        ELSE (Len(buffer) >= 4 /\ buffer[4] \notin {3, 4})
                => decoded = [error |-> "Binary not for this version of Diannex.",
                              bin |-> Null]

\* version 2 with the signature was refused for its version
C21_Witness ==
    /\ decoded # Null /\ decoded # Cut
    /\ decoded.error = "Binary not for this version of Diannex."
    /\ SubSeq(buffer, 1, 4) = << 68, 78, 88, 2 >>

\* C22: every symbol of the scenes, functions and definitions of a Binary
\* that readFromBuffer returns is an index into its string table.
C22_SymbolsInStringTable ==
    (decoded # Null /\ decoded # Cut /\ decoded.error = "") =>
        \A table \in {decoded.bin.scenes, decoded.bin.functions, decoded.bin.definitions} :
            \A i \in DOMAIN table :
                table[i].symbol >= 0 /\ table[i].symbol < Len(decoded.bin.stringTable)

\* the instructions of the given opcodes that a step may execute
StepsOf(ops) == { ins \in StepInstructions : ins.op \in ops }

\* C23: a ChooseAdd off that pops a number records the option {value: the
\* number, pointer: the address after the instruction + off} behind the
\* options recorded before; ChooseSelect hands the recorded weights in that
\* order to weightedChanceCallback and, when the index s it returns is one of
\* the options, moves the instruction pointer to the pointer of option s and
\* empties the options, without pausing and without throwing.
C23_ChooseAddChooseSelect ==
    [][ \A ins \in StepsOf({"ChooseAdd", "ChooseSelect"}), rnd \in 0..(RandomScale - 1) :
          Step(ins, rnd) =>
            /\ (ins.op = "ChooseAdd" /\ IsNumber(Top(stack)))
                 => /\ chooseOptions' =
                         Append(chooseOptions,
                                [value |-> Top(stack),
                                 pointer |-> instructionPointer + 5 + ins.arg1])
                    /\ stack' = Rest(stack)
            /\ ins.op = "ChooseSelect"
                 => LET weights == [i \in 1..Len(chooseOptions) |-> chooseOptions[i].value.v]
                        selection == WeightedChanceCallback(weights, rnd)
                    IN (0 <= selection /\ selection < Len(chooseOptions))
                         => /\ instructionPointer' = chooseOptions[selection + 1].pointer
                            /\ chooseOptions' = <<>>
                            /\ ~paused' /\ ~lastThrown' /\ lastCallbacks' = 1 ]_vars

\* ChooseSelect took the second of two options
C23_Witness ==
    /\ lastOpcode = "ChooseSelect" /\ ~lastThrown /\ ~paused
    /\ instructionPointer = 72 /\ chooseOptions = <<>>

\* C24: in a choice, a ChoiceAdd off that pops a number chance and a string
\* text pops these two values only and, when chanceCallback(chance) is true,
\* adds the one choice {address: the address after the instruction + off,
\* text} behind the choices accumulated before; it adds nothing when the
\* callback is false.
C24_ChoiceAddAppends ==
    [][ \A ins \in StepsOf({"ChoiceAdd"}), rnd \in 0..(RandomScale - 1) :
          (/\ Step(ins, rnd) /\ ins.op = "ChoiceAdd" /\ inChoice
           /\ IsNumber(Top(stack)) /\ IsString(Top(Rest(stack))))
            => /\ stack' = RestAfter(stack, 2)
               /\ choices' =
                    IF ChanceCallback(Top(stack), rnd)
                    THEN Append(choices, [address |-> instructionPointer + 5 + ins.arg1,
                                          text |-> Top(Rest(stack)).v])
                    ELSE choices ]_vars

\* C25: JumpFalsey off pops one value and adds off to the instruction
\* pointer exactly when the value is falsy; JumpTruthy off pops one value and
\* adds off exactly when it is truthy.
C25_ConditionalJumps ==
    [][ \A ins \in StepsOf({"JumpTruthy", "JumpFalsey"}), rnd \in 0..(RandomScale - 1) :
          Step(ins, rnd)
            => /\ stack' = Rest(stack)
               /\ instructionPointer' =
                    IF Truthy(Top(stack)) = (ins.op = "JumpTruthy")
                    THEN instructionPointer + 5 + ins.arg1
                    ELSE instructionPointer + 5 ]_vars

\* C26: after SetVarLocal i has popped v, the local i reads v (what a
\* PushVarLocal i would push); when i was at least the count of the store,
\* every other local from the old count on reads undefined.
C26_SetVarLocalThenGet ==
    [][ \A ins \in StepsOf({"SetVarLocal"}), rnd \in 0..(RandomScale - 1) :
          Step(ins, rnd) =>
            LET v == Top(stack)
                i == ins.arg1
                count == StoreCount(localVarStore)
            IN /\ stack' = Rest(stack)
               /\ StoreGet(localVarStore', flags', i) = v
               /\ i >= count =>
                    \A j \in count..(MaxLocal + 1) :
                        j # i => StoreGet(localVarStore', flags', j) = Undefined ]_vars

\* C30: MakeArray n pops n values and pushes one array of them in which
\* the value popped last is element 0 and the value popped first, the former
\* top of the stack, is element n - 1.
C30_MakeArrayOrder ==
    [][ \A ins \in StepsOf({"MakeArray"}), rnd \in 0..(RandomScale - 1) :
          (Step(ins, rnd) /\ ins.arg1 <= Len(stack)) =>
            LET n == ins.arg1
            IN stack' = Append(RestAfter(stack, n),
                               Arr(SubSeq(stack, Len(stack) - n + 1, Len(stack)))) ]_vars

\* C27: after a Call id, argc that did not throw, the locals 0 .. argc - 1
\* of the new frame read the arguments, local j the (j + 1)-th value popped,
\* whether the function has flag initializers or not.
C27_ArgumentsAreFirstLocals ==
    [][ \A ins \in StepsOf({"Call"}), rnd \in 0..(RandomScale - 1) :
          (/\ lastOpcode' = ins.op /\ ~lastThrown' /\ ins.arg2 <= Len(stack)
           /\ Step(ins, rnd)) =>
            \A j \in 0..(ins.arg2 - 1) :
                StoreGet(localVarStore', flags', j) = stack[Len(stack) - j] ]_vars

\* C28: a Call pushes a frame with the address after the Call, the operand
\* stack under the arguments and the caller's local store; the Return or Exit
\* that finds the frame on top pops it, continues after that Call with the
\* caller's store as the frame holds it, and leaves the returned value
\* (Return) or undefined (Exit) on top of the operand stack.
C28_ReturnAndExitRestoreFrame ==
    [][ LET argc == Fetch(instructionPointer).arg2
            frame == callStack[Len(callStack)]
        IN /\ (lastCall' = "update" /\ lastOpcode' = "Call" /\ ~lastThrown')
                => callStack' = Append(callStack,
                                       [id |-> instructionPointer + 9,
                                        stack |-> RestAfter(stack, argc),
                                        variable |-> localVarStore])
           /\ (/\ lastCall' = "update" /\ lastOpcode' \in {"Return", "Exit"}
               /\ callStack # <<>>)
                => /\ ~lastThrown'
                   /\ callStack' = Rest(callStack)
                   /\ instructionPointer' = frame.id
                   /\ Fetch(frame.id - 9).op = "Call"
                   /\ localVarStore' = frame.variable
                   /\ stack' = Append(frame.stack,
                                      IF lastOpcode' = "Return" THEN Top(stack)
                                      ELSE Undefined)
      ]_vars

\* function "greet", called by scene "deep" with the argument 4, has called
\* "sub" and has returned its local 1 to the scene
C28_Witness ==
    /\ lastCall = "update" /\ lastOpcode = "Return" /\ ~lastThrown
    /\ currentScene = Str("deep") /\ callStack = <<>>
    /\ instructionPointer = 191 /\ stack = << Num(3), Num(4) >>
    /\ localVarStore = NewStore

Falsy(v) == v \in { Undefined, Num(0), Str(""), Arr(<< >>) }

\* C31: Invert, JumpTruthy, JumpFalsey, ChoiceAddTruthy and ChooseAddTruthy
\* test the value they pop in the same way: undefined, 0, the empty string
\* and the empty array are falsy and every other value is truthy. Invert
\* pushes 1 for a falsy and 0 for a truthy value, JumpTruthy jumps for a
\* truthy and JumpFalsey for a falsy value, ChooseAddTruthy records its
\* option and ChoiceAddTruthy asks chanceCallback for a truthy condition only.
C31_Truthiness ==
    [][ \A ins \in { i \in OperandInstructions : i.op \in TestingOpcodes },
           rnd \in 0..(RandomScale - 1) :
          (lastOpcode' = ins.op /\ Step(ins, rnd)) =>
            LET top == Top(stack)
                under == Top(Rest(stack))
                after == instructionPointer + 1 + OperandWidth(ins.op)
            IN /\ ins.op = "Invert"
                    => stack' = Append(Rest(stack), Num(IF Falsy(top) THEN 1 ELSE 0))
               /\ ins.op = "JumpTruthy"
                    => instructionPointer' = after + (IF Falsy(top) THEN 0 ELSE ins.arg1)
               /\ ins.op = "JumpFalsey"
                    => instructionPointer' = after + (IF Falsy(top) THEN ins.arg1 ELSE 0)
               /\ (ins.op = "ChooseAddTruthy" /\ IsNumber(top))
                    => (chooseOptions' # <<>>) = ~Falsy(under)
               /\ (ins.op = "ChoiceAddTruthy" /\ inChoice /\ IsNumber(top) /\ IsString(under))
                    => (lastCallbacks' = 1) = ~Falsy(Top(Rest(Rest(stack)))) ]_vars

\* C32: an arithmetic, bitwise or comparison instruction that finds its
\* operands on the stack, not all of them numbers, pops them and pushes
\* nothing: it throws nothing and changes nothing else but the instruction
\* pointer, which moves behind the instruction.
C32_NonNumericOperands ==
    [][ \A ins \in { i \in OperandInstructions : i.op \in BinaryOpcodes \cup UnaryOpcodes },
           rnd \in 0..(RandomScale - 1) :
          LET arity == IF ins.op \in UnaryOpcodes THEN 1 ELSE 2
          IN (/\ lastOpcode' = ins.op /\ Len(stack) >= arity
              /\ \E i \in 1..arity : ~IsNumber(stack[Len(stack) - i + 1])
              /\ Step(ins, rnd))
               => /\ stack' = RestAfter(stack, arity)
                  /\ ~lastThrown'
                  /\ instructionPointer' = instructionPointer + 1
                  /\ UNCHANGED << saveRegister, localVarStore, callStack,
                                  globalVariableStore, flags, choices, chooseOptions,
                                  inChoice, selectChoice, runningText, paused,
                                  sceneCompleted, currentScene, currentText >> ]_vars

\* C33: a ChoiceBegin executed in a choice, a ChoiceAdd or ChoiceAddTruthy
\* executed outside a choice, and a ChoiceSelect executed outside a choice or
\* with no choices each make update() throw, and leave selectChoice, paused,
\* inChoice and the choices as they were.
C33_ChoiceProtocolErrors ==
    [][ \A ins \in StepsOf({"ChoiceBegin", "ChoiceAdd", "ChoiceAddTruthy", "ChoiceSelect"}),
           rnd \in 0..(RandomScale - 1) :
          (/\ lastOpcode' = ins.op
           /\ \/ ins.op = "ChoiceBegin" /\ inChoice
              \/ ins.op \in {"ChoiceAdd", "ChoiceAddTruthy"} /\ ~inChoice
              \/ ins.op = "ChoiceSelect" /\ (~inChoice \/ choices = <<>>)
           /\ Step(ins, rnd))
            => /\ lastThrown'
               /\ UNCHANGED << selectChoice, paused, inChoice, choices >> ]_vars

\* ChoiceSelect has thrown in a choice that has no choices
C33_Witness ==
    /\ lastOpcode = "ChoiceSelect" /\ lastThrown
    /\ inChoice /\ choices = <<>> /\ ~paused /\ ~selectChoice

\* C34: a ChooseSelect whose weightedChanceCallback returns an index below
\* 0 or not below the number of options throws the error of an out-of-bounds
\* selection and leaves the instruction pointer behind the instruction, at
\* no option's pointer.
C34_SelectionOutOfRange ==
    [][ \A selection \in Selections :
          (/\ lastOpcode' = "ChooseSelect"
           /\ (selection < 0 \/ selection >= Len(chooseOptions))
           /\ StepSelecting(selection))
            => /\ lastThrown'
               /\ lastError' = "Selection returned by WeightedChanceCallback was out of bounds."
               /\ instructionPointer' = instructionPointer + 1 ]_vars

\* C35: for weights w[0 .. n) with n >= 1 and a total of at least 1, the
\* default weightedChanceCallback returns, for the rounded draw R, the
\* largest index i with R >= p[i], p[i] being w[0] + ... + w[i - 1]:
\* ChooseSelect continues at the pointer of that option and does not throw.
C35_LargestPrefixSum ==
    [][ \A rnd \in 0..(RandomScale - 1) :
          LET w == [i \in 1..Len(chooseOptions) |-> chooseOptions[i].value.v]
              total == SumOf(w)
              p(i) == SumOf(SubSeq(w, 1, i))
              R == RoundRatio(rnd * (total - 1), RandomScale)
              largest == CHOOSE i \in 0..(Len(w) - 1) :
                            /\ R >= p(i)
                            /\ \A j \in (i + 1)..(Len(w) - 1) : R < p(j)
          IN (total >= 1 /\ Step(I0("ChooseSelect"), rnd))
               => /\ ~lastThrown'
                  /\ instructionPointer' = chooseOptions[largest + 1].pointer ]_vars

RECURSIVE Unfilled(_, _)
\* format has an unescaped placeholder ${...} whose content is not a digit
\* below k
Unfilled(format, k) ==
    IF Len(format) < 3 THEN FALSE
    ELSE IF Head(format) = "\\" THEN Unfilled(SubSeq(format, 3, Len(format)), k)
    ELSE IF SubSeq(format, 1, 2) = "${"
         THEN LET closing == { i \in 3..Len(format) : SubSeq(format, i, i) = "}" }
              IN IF closing = {} THEN FALSE
                 ELSE LET i == CHOOSE c \in closing : \A d \in closing : c <= d
                          content == SubSeq(format, 3, i - 1)
                      IN \/ ~(/\ Len(content) = 1 /\ content \in DigitChars
                              /\ DigitValue(content) < k)
                         \/ Unfilled(SubSeq(format, i + 1, Len(format)), k)
    ELSE Unfilled(Tail(format), k)

\* C36: an interpolated-string push with count k of a format with a
\* placeholder ${N}, N >= k, or a placeholder whose content is not an
\* integer, pops the k values and pushes the format with that placeholder
\* left exactly as written (the placeholders below k replaced).
C36_UnfilledPlaceholder ==
    [][ \A format \in Formats, k \in 0..MaxExprCount :
          (PushInterpolated(format, k) /\ Unfilled(format, k))
            => stack' = Append(SubSeq(stack, 1, Len(stack) - k),
                               Str(Replaced(format, PopValues(stack, k))))
      ]_vars

\* C37: once Exit at the bottom of the call stack has completed the scene
\* (sceneCompleted, instruction pointer -1, paused), a resume() or an update()
\* executes no instruction, invokes no callback and leaves the instruction
\* pointer at -1 and the interpreter paused; only runScene restarts it.
C37_CompletedStaysCompleted ==
    [][ (/\ sceneCompleted /\ instructionPointer = -1 /\ paused
         /\ lastCall' \in {"resume", "update"})
          => /\ instructionPointer' = -1
             /\ paused'
             /\ sceneCompleted'
             /\ lastOpcode' = "none"
             /\ lastCallbacks' = 0 ]_vars

\* C38: resolving a definition that has an interpolation program
\* (instructionIndex # -1), in getDefinition or in loadTranslationFile,
\* leaves paused, sceneCompleted, the call stack and the active local
\* variable store as they were, before any scene, inside a function call
\* and after completion alike.
C38_ResolvingKeepsExecutionState ==
    [][ (/\ \/ \E name \in DefinitionNames :
                 /\ HostGetDefinition(name)
                 /\ ~(name \in DOMAIN definitionsCache /\ Truthy(definitionsCache[name]))
                 /\ \E i \in LookupDefinition(definitions, name) :
                       definitions[i].instructionIndex # -1
            \/ \E fileContents \in TranslationFiles :
                 HostLoadTranslationFile(fileContents)
         /\ ~lastThrown')
          => UNCHANGED << paused, sceneCompleted, callStack, localVarStore >> ]_vars

\* C39: after any sequence of add, set and delete on a LocalVariableStore,
\* add(v) stores v under an ID that held no variable and no flag local, every
\* other local keeps its value, and get of the new ID returns v.
C39_AddNeverOverwrites ==
    [][ \A value \in StepValues :
          LocalAdd(value)
            => \E id \in 0..(MaxLocal + 1) :
                  /\ id \notin DOMAIN localVarStore.variables
                  /\ id \notin DOMAIN localVarStore.flagMap
                  /\ localVarStore' = [localVarStore EXCEPT
                                          !.variables = Put(@, id, value)]
                  /\ StoreGet(localVarStore', flags', id) = value
                  /\ flags' = flags ]_vars

\* the bytes a read of the BinaryReader decodes, given what it returned
WidthRead(name, out) ==
    CASE name = "readUInt8" -> 1
      [] name = "readUInt16" -> 2
      [] name \in {"readInt32", "readUInt32"} -> 4
      [] name = "readDouble" -> 8
      [] name = "readString" -> Len(out) + 1
      [] OTHER -> Len(out)

\* C40: every read of the BinaryReader that returns advances the cursor by
\* the bytes it decoded: 1 for readUInt8, 2 for readUInt16, 4 for readInt32
\* and readUInt32, 8 for readDouble, the length of the string plus 1 for
\* readString and n for readBytes(n) and readChars(n), so that consecutive
\* reads decode adjacent fields that do not overlap.
C40_ReadsAdvanceByWidth ==
    [][ (reader' # reader /\ ~reader'.thrown)
          => reader'.pos = reader.pos + WidthRead(reader'.read, reader'.out) ]_vars

=============================================================================
